---------------------------- MODULE Spec2Model ----------------------------
(***************************************************************************)
(* Model of the threedi-modelchecker check engine: the check registry      *)
(* (Config), the orchestrator (ThreediModelChecker), the check classes and *)
(* the cross-section classification they are built on.                     *)
(*                                                                         *)
(* Conventions                                                             *)
(*  - A text column value is a sequence of one-character strings; SQL NULL *)
(*    (Python None) is the one-element sequence Null.                      *)
(*  - Lengths are integers in units of 0.025 m, so minimum_diameter = 0.1 m*)
(*    is 4 and the digits used ("0","2","4") keep 1.5 * width integral.    *)
(*  - The outcome of a call is a record [raised, rows]: raised = TRUE      *)
(*    stands for a Python exception leaving the call.                      *)
(***************************************************************************)
EXTENDS Integers, Sequences, FiniteSets, TLC

(***************************************************************************)
(* Bounds                                                                  *)
(***************************************************************************)
MaxCalls == 3
MaxConcCalls == 1

(***************************************************************************)
(* Text values and Python's str.split(" ") / float()                       *)
(***************************************************************************)
Null == <<"NULL">>
Empty == <<>>
Digits == {"0", "2", "4"}
Chars == Digits \cup {"-", " ", "x"}

DigitVal(c) == IF c = "0" THEN 0 ELSE IF c = "2" THEN 2 ELSE 4

RECURSIVE SplitAcc(_, _, _)
SplitAcc(s, cur, acc) ==
    IF s = <<>> THEN Append(acc, cur)
    ELSE IF Head(s) = " " THEN SplitAcc(Tail(s), <<>>, Append(acc, cur))
    ELSE SplitAcc(Tail(s), Append(cur, Head(s)), acc)

\* s.split(" "): always at least one token, empty tokens are kept
Split(s) == SplitAcc(s, <<>>, <<>>)

RECURSIVE DecVal(_, _)
DecVal(ds, acc) ==
    IF ds = <<>> THEN acc ELSE DecVal(Tail(ds), 10 * acc + DigitVal(Head(ds)))

AllDigits(ds) == ds # <<>> /\ \A i \in 1..Len(ds) : ds[i] \in Digits

\* float(tok) succeeds
IsFloat(tok) ==
    IF tok # <<>> /\ Head(tok) = "-" THEN AllDigits(Tail(tok)) ELSE AllDigits(tok)

\* float(tok) for a token that parses
FloatOf(tok) ==
    IF Head(tok) = "-" THEN 0 - DecVal(Tail(tok), 0) ELSE DecVal(tok, 0)

\* [float(x) for x in s.split(" ")] raises ValueError
FloatListFails(s) == \E i \in 1..Len(Split(s)) : ~IsFloat(Split(s)[i])

\* [float(x) for x in s.split(" ")]
FloatList(s) == [i \in 1..Len(Split(s)) |-> FloatOf(Split(s)[i])]

RECURSIVE SeqMax(_)
SeqMax(xs) ==
    IF Len(xs) = 1 THEN xs[1]
    ELSE LET m == SeqMax(Tail(xs)) IN IF xs[1] >= m THEN xs[1] ELSE m

RECURSIVE SeqMin(_)
SeqMin(xs) ==
    IF Len(xs) = 1 THEN xs[1]
    ELSE LET m == SeqMin(Tail(xs)) IN IF xs[1] <= m THEN xs[1] ELSE m

(***************************************************************************)
(* constants.CrossSectionShape / constants.FrictionType                    *)
(***************************************************************************)
CLOSED_RECTANGLE == 0
RECTANGLE == 1
CIRCLE == 2
EGG == 3
TABULATED_RECTANGLE == 5
TABULATED_TRAPEZIUM == 6
TABULATED_YZ == 7
INVERTED_EGG == 8
CrossSectionShape ==
    {CLOSED_RECTANGLE, RECTANGLE, CIRCLE, EGG, TABULATED_RECTANGLE,
     TABULATED_TRAPEZIUM, TABULATED_YZ, INVERTED_EGG}

FrictionType == {"CHEZY", "MANNING", "CHEZY_CONVEYANCE", "MANNING_CONVEYANCE"}
ConveyanceFriction == {"CHEZY_CONVEYANCE", "MANNING_CONVEYANCE"}

(***************************************************************************)
(* cross_section_configuration(shape, heights, widths)                     *)
(* Result: [raised, max_width, max_height, configuration]; max_height is   *)
(* <<>> for None and <<h>> otherwise.  raised = TRUE is the                *)
(* UnboundLocalError of `return max_width, max_height, configuration`      *)
(* when no branch bound `configuration`.                                   *)
(***************************************************************************)
OrZero(xs) == IF xs = <<>> THEN <<0>> ELSE xs

Unbound == [raised |-> TRUE, max_width |-> 0, max_height |-> <<>>, configuration |-> "unbound"]

Classified(mw, mh, conf) ==
    [raised |-> FALSE, max_width |-> mw, max_height |-> mh, configuration |-> conf]

cross_section_configuration_widths_only(shape, heights, widths) ==
    LET w == OrZero(widths)
        h == OrZero(heights)
    IN  IF shape = CLOSED_RECTANGLE
            THEN Classified(SeqMax(w), <<SeqMax(h)>>, "closed")
        ELSE IF shape = RECTANGLE
            THEN Classified(SeqMax(w), <<>>, "open")
        ELSE IF shape = CIRCLE
            THEN Classified(SeqMax(w), <<SeqMax(w)>>, "closed")
        ELSE IF shape \in {EGG, INVERTED_EGG}
            THEN Classified(SeqMax(w), <<(3 * SeqMax(w)) \div 2>>, "closed")
        ELSE IF shape \in {TABULATED_RECTANGLE, TABULATED_TRAPEZIUM}
            THEN IF w[Len(w)] = 0
                     THEN Classified(SeqMax(w), <<SeqMax(h)>>, "closed")
                 ELSE IF w[Len(w)] > 0
                     THEN Classified(SeqMax(w), <<SeqMax(h)>>, "open")
                 ELSE Unbound
        ELSE IF shape = TABULATED_YZ
            THEN Classified(SeqMax(w) - SeqMin(w), <<SeqMax(h) - SeqMin(h)>>,
                            IF w[1] = w[Len(w)]
                            THEN "closed" ELSE "open")
        ELSE Unbound
cross_section_configuration(shape, heights, widths) ==
    LET w == OrZero(widths)
        h == OrZero(heights)
    IN  IF shape = CLOSED_RECTANGLE
            THEN Classified(SeqMax(w), <<SeqMax(h)>>, "closed")
        ELSE IF shape = RECTANGLE
            THEN Classified(SeqMax(w), <<>>, "open")
        ELSE IF shape = CIRCLE
            THEN Classified(SeqMax(w), <<SeqMax(w)>>, "closed")
        ELSE IF shape \in {EGG, INVERTED_EGG}
            THEN Classified(SeqMax(w), <<(3 * SeqMax(w)) \div 2>>, "closed")
        ELSE IF shape \in {TABULATED_RECTANGLE, TABULATED_TRAPEZIUM}
            THEN IF w[Len(w)] = 0
                     THEN Classified(SeqMax(w), <<SeqMax(h)>>, "closed")
                 ELSE IF w[Len(w)] > 0
                     THEN Classified(SeqMax(w), <<SeqMax(h)>>, "open")
                 ELSE Unbound
        ELSE IF shape = TABULATED_YZ
            THEN Classified(SeqMax(w) - SeqMin(w), <<SeqMax(h) - SeqMin(h)>>,
                            IF <<w[1], h[1]>> = <<w[Len(w)], h[Len(h)]>>
                            THEN "closed" ELSE "open")
        ELSE Unbound


(***************************************************************************)
(* Python values: None is <<>>, a value v is <<v>>                         *)
(***************************************************************************)
None == <<>>
Some(v) == <<v>>

Returned(rows) == [raised |-> FALSE, rows |-> rows]
Raised == [raised |-> TRUE, rows |-> <<>>]

(***************************************************************************)
(* Database content (read-only during validation).                         *)
(*   definitions : v2_cross_section_definition [id, shape, width, height]  *)
(*   locations   : v2_cross_section_location [id, definition_id,           *)
(*                 friction_type]                                          *)
(*   pipes       : v2_pipe [id, cross_section_definition_id]               *)
(*   settings    : v2_global_settings [id, epsg_code, grid_space, dem_file]*)
(*   nodes       : v2_connection_nodes [id, pos] (points on a line)        *)
(*   spatial_index : CheckSpatialIndex(v2_connection_nodes, the_geom) = 1  *)
(*   version     : the tracked schema version, None when there is none     *)
(* The file system maps a raster path to [exists, dataset, gtiff,          *)
(* projection, epsg_code, pixel_size, shape].                              *)
(***************************************************************************)
Def(id, shape, width, height) ==
    [id |-> id, shape |-> shape, width |-> width, height |-> height]
Loc(id, definition_id, friction_type) ==
    [id |-> id, definition_id |-> definition_id, friction_type |-> friction_type]
Pipe(id, definition_id) == [id |-> id, cross_section_definition_id |-> definition_id]
Setting(id, epsg_code, grid_space, dem_file, vegetation_drag_settings_id) ==
    [id |-> id, epsg_code |-> epsg_code, grid_space |-> grid_space, dem_file |-> dem_file,
     vegetation_drag_settings_id |-> vegetation_drag_settings_id]
Node(id, pos) == [id |-> id, pos |-> pos]

(***************************************************************************)
(* Queries shared by the checks                                            *)
(***************************************************************************)
NotNullOrEmpty(v) == v # Null /\ v # Empty

SeqToSet(xs) == {xs[i] : i \in 1..Len(xs)}

\* Query(CrossSectionLocation.definition_id).union_all(Query(Pipe.cross_section_definition_id), ...)
DefinitionIdsInUse(db) ==
    {db.locations[i].definition_id : i \in 1..Len(db.locations)}
        \cup {db.pipes[i].cross_section_definition_id : i \in 1..Len(db.pipes)}

\* BaseCheck.to_check: session.query(self.table)
BaseCheck_to_check(chk, db) ==
    IF chk.table = "v2_cross_section_definition" THEN db.definitions
    ELSE IF chk.table = "v2_cross_section_location" THEN db.locations
    ELSE IF chk.table = "v2_global_settings" THEN db.settings
    ELSE db.nodes

\* CrossSectionBaseCheck.to_check: the definitions in use, of self.shapes when given
CrossSectionBaseCheck_to_check(chk, db) ==
    LET Applicable(d) ==
            /\ (chk.shapes = None \/ d.shape \in chk.shapes[1])
            /\ d.id \in DefinitionIdsInUse(db)
    IN  SelectSeq(BaseCheck_to_check(chk, db), Applicable)

\* BaseRasterCheck.to_check: rows whose raster column is neither NULL nor ""
BaseRasterCheck_to_check(chk, db) ==
    LET HasReference(r) == NotNullOrEmpty(r[chk.column])
    IN  SelectSeq(BaseCheck_to_check(chk, db), HasReference)

\* the criterion of a ConditionalCheck, a WHERE clause over the wrapped check's table
Criterion(name, row) ==
    IF name = "shape_is_tabulated"
        THEN row.shape \in {TABULATED_RECTANGLE, TABULATED_TRAPEZIUM}
    ELSE IF name = "width_filled" THEN NotNullOrEmpty(row.width)
    ELSE TRUE

(***************************************************************************)
(* Cross-section checks                                                    *)
(***************************************************************************)
MinimumDiameter == 4

Widths(record) == FloatList(record.width)
Heights(record) ==
    IF record.height \in {Null, Empty} THEN <<>> ELSE FloatList(record.height)

\* the try block of the three classification checks raises ValueError
DimensionsFail(record) ==
    \/ FloatListFails(record.width)
    \/ (record.height \notin {Null, Empty} /\ FloatListFails(record.height))

Configuration(record) ==
    cross_section_configuration(record.shape, Heights(record), Widths(record))

\* a width list that decreases somewhere / never decreases
SomeDecrease(ws) == Len(ws) > 1 /\ \E i \in 1..(Len(ws) - 1) : ws[i + 1] < ws[i]
NeverDecreases(ws) == Len(ws) > 1 /\ \A i \in 1..(Len(ws) - 1) : ws[i + 1] >= ws[i]

\* one pass of a `for record in ...` loop: "skip", "raise", "invalid" or "valid"
MinimumDiameterRow(record) ==
    IF DimensionsFail(record) THEN "skip"
    ELSE LET c == Configuration(record)
         IN  IF c.raised THEN "raise"
             ELSE IF c.configuration = "closed"
                 THEN IF c.max_height[1] < MinimumDiameter \/ c.max_width < MinimumDiameter
                      THEN "invalid" ELSE "valid"
             ELSE IF c.max_width < MinimumDiameter THEN "invalid" ELSE "valid"

ConveyanceFrictionRow(record) ==
    IF DimensionsFail(record) THEN "skip"
    ELSE LET c == Configuration(record)
         IN  IF c.raised THEN "raise"
             ELSE IF c.configuration = "closed" \/ SomeDecrease(Widths(record))
                 THEN "invalid" ELSE "valid"

ConveyanceAdviceRow(record) ==
    IF DimensionsFail(record) THEN "skip"
    ELSE LET c == Configuration(record)
         IN  IF c.raised THEN "raise"
             ELSE IF /\ c.configuration = "open"
                     /\ NeverDecreases(Widths(record))
                     /\ record.shape \in {TABULATED_RECTANGLE, TABULATED_TRAPEZIUM, TABULATED_YZ}
                     /\ record.friction_type \notin ConveyanceFriction
                 THEN "invalid" ELSE "valid"

\* a loop over `records` that appends the invalid ones; an exception in any
\* pass leaves the call
RECURSIVE Invalids(_, _)
Invalids(records, outcomes) ==
    IF records = <<>> THEN <<>>
    ELSE (IF Head(outcomes) = "invalid" THEN <<Head(records)>> ELSE <<>>)
             \o Invalids(Tail(records), Tail(outcomes))

\* outcomes[i] is the outcome of the pass over records[i]
Loop(records, outcomes) ==
    IF \E i \in 1..Len(records) : outcomes[i] = "raise"
    THEN Raised
    ELSE Returned(Invalids(records, outcomes))

\* CrossSectionMinimumDiameterCheck.get_invalid over self.to_check(session)
CrossSectionMinimumDiameterCheck_get_invalid(to_check) ==
    LET WidthFilled(r) == NotNullOrEmpty(r.width)
        records == SelectSeq(to_check, WidthFilled)
    IN  Loop(records, [i \in 1..Len(records) |-> MinimumDiameterRow(records[i])])

\* select(location.id, location.friction_type, definition.shape, .width, .height)
\*   .join(CrossSectionDefinition, isouter=True).where(width != None & width != "")
RECURSIVE LocationJoin(_, _)
LocationJoin(locations, definitions) ==
    IF locations = <<>> THEN <<>>
    ELSE LET l == Head(locations)
             Matches(d) == d.id = l.definition_id /\ NotNullOrEmpty(d.width)
             Joined(d) == [id |-> l.id, friction_type |-> l.friction_type,
                           shape |-> d.shape, width |-> d.width, height |-> d.height]
             ds == SelectSeq(definitions, Matches)
         IN  [i \in 1..Len(ds) |-> Joined(ds[i])] \o LocationJoin(Tail(locations), definitions)

OpenIncreasingCrossSectionConveyanceFrictionCheck_get_invalid(db) ==
    LET WithConveyance(r) == r.friction_type \in ConveyanceFriction
        records == SelectSeq(LocationJoin(db.locations, db.definitions), WithConveyance)
    IN  Loop(records, [i \in 1..Len(records) |-> ConveyanceFrictionRow(records[i])])

CrossSectionConveyanceFrictionAdviceCheck_get_invalid(db) ==
    LET records == LocationJoin(db.locations, db.definitions)
    IN  Loop(records, [i \in 1..Len(records) |-> ConveyanceAdviceRow(records[i])])

(***************************************************************************)
(* ConnectionNodesDistance: the self-join of v2_connection_nodes.  A row   *)
(* of the result is the pair cn1.*, cn2.*; its id is cn1.id.  The search   *)
(* frame Buffer(cn1.the_geom, minimum_distance / 2) holds the nodes within *)
(* minimum_distance / 2 of cn1.                                            *)
(***************************************************************************)
Abs(n) == IF n < 0 THEN 0 - n ELSE n

RECURSIVE Flatten(_)
Flatten(xss) == IF xss = <<>> THEN <<>> ELSE Head(xss) \o Flatten(Tail(xss))

ConnectionNodesDistance_get_invalid(chk, db) ==
    LET Pairs(cn1) ==
            LET Near(cn2) ==
                    /\ Abs(cn1.pos - cn2.pos) < chk.minimum_distance
                    /\ cn1.id # cn2.id
                    /\ db.spatial_index
                    /\ 2 * Abs(cn1.pos - cn2.pos) <= chk.minimum_distance
                near == SelectSeq(db.nodes, Near)
            IN  [i \in 1..Len(near) |->
                    [id |-> cn1.id, pos |-> cn1.pos, id_1 |-> near[i].id, pos_1 |-> near[i].pos]]
    IN  Returned(Flatten([i \in 1..Len(db.nodes) |-> Pairs(db.nodes[i])]))

\* SpatialIndexCheck.get_invalid
SpatialIndexCheck_get_invalid(chk, db) ==
    IF db.spatial_index THEN Returned(<<>>)
    ELSE Returned(<<[id |-> 1, table_name |-> chk.table, column_name |-> chk.column]>>)

(***************************************************************************)
(* Raster checks.  ctx is the LocalContext or ServerContext:               *)
(*   [type, available, is_dict, available_rasters, url]                    *)
(* available is raster_interface.available(); a ServerContext holds either *)
(* a dict raster name -> url (is_dict, the urls in url) or a set of raster *)
(* names.  fs maps a path or url to the file behind it:                    *)
(*   [exists, is_valid_geotiff, has_projection, epsg_code, pixel_size]     *)
(***************************************************************************)
Paths == {<<"a">>}

NoFile == [exists |-> FALSE, is_valid_geotiff |-> FALSE, has_projection |-> FALSE,
           epsg_code |-> None, pixel_size |-> None, band_count |-> 0,
           is_geographic |-> FALSE, shape |-> None, statistics |-> "error",
           min |-> 0, max |-> 0]

FileAt(fs, path) == IF path \in Paths THEN fs[path] ELSE NoFile

\* BaseRasterCheck.get_path_local
get_path_local_unchecked(chk, record, fs) == Some(record[chk.column])
get_path_local(chk, record, fs) ==
    IF FileAt(fs, record[chk.column]).exists THEN Some(record[chk.column]) ELSE None

\* BaseRasterCheck.get_path_server
get_path_server(chk, ctx) ==
    IF ctx.is_dict /\ chk.column \in ctx.available_rasters
    THEN Some(ctx.url) ELSE None

\* RasterHasMatchingEPSGCheck.is_valid, reading self.epsg_code
RasterHasMatchingEPSGCheck_is_valid(self_epsg_code, raster) ==
    IF ~raster.is_valid_geotiff \/ ~raster.has_projection THEN "valid"
    ELSE IF self_epsg_code = None \/ raster.epsg_code = None THEN "invalid"
    ELSE IF raster.epsg_code = self_epsg_code THEN "valid" ELSE "invalid"

\* RasterGridSizeCheck.is_valid, reading self.grid_space; a TypeError (a None
\* operand) is caught, a ZeroDivisionError is not
RasterGridSizeCheck_is_valid(self_grid_space, raster) ==
    IF ~raster.is_valid_geotiff THEN "valid"
    ELSE IF self_grid_space = None \/ raster.pixel_size = None THEN "valid"
    ELSE IF raster.pixel_size[1] = 0 THEN "raise"
    ELSE IF /\ self_grid_space[1] % (2 * raster.pixel_size[1]) = 0
            /\ self_grid_space[1] >= 2 * raster.pixel_size[1]
         THEN "valid" ELSE "invalid"

\* RasterIsValidCheck.is_valid
RasterIsValidCheck_is_valid(raster) ==
    IF raster.is_valid_geotiff THEN "valid" ELSE "invalid"

\* RasterHasOneBandCheck.is_valid
RasterHasOneBandCheck_is_valid(raster) ==
    IF ~raster.is_valid_geotiff THEN "valid"
    ELSE IF raster.band_count = 1 THEN "valid" ELSE "invalid"

\* RasterHasProjectionCheck.is_valid
RasterHasProjectionCheck_is_valid(raster) ==
    IF ~raster.is_valid_geotiff THEN "valid"
    ELSE IF raster.has_projection THEN "valid" ELSE "invalid"

\* RasterIsProjectedCheck.is_valid
RasterIsProjectedCheck_is_valid(raster) ==
    IF ~raster.is_valid_geotiff \/ ~raster.has_projection THEN "valid"
    ELSE IF ~raster.is_geographic THEN "valid" ELSE "invalid"

\* RasterSquareCellsCheck.is_valid; pixel_size is None for (None, None), and
\* cell sizes are whole numbers, which round(_, decimals) leaves alone
RasterSquareCellsCheck_is_valid(raster) ==
    IF ~raster.is_valid_geotiff THEN "valid"
    ELSE IF raster.pixel_size = None THEN "invalid"
    ELSE IF raster.pixel_size[1] = raster.pixel_size[2] THEN "valid" ELSE "invalid"

\* RasterPixelCountCheck.is_valid, reading self.max_pixels; raster.shape is
\* read whatever the file is, and a file that could not be opened has no
\* dataset to take a shape from
RasterPixelCountCheck_is_valid(self_max_pixels, raster) ==
    IF raster.shape = None THEN "raise"
    ELSE IF raster.shape[1] * raster.shape[2] <= self_max_pixels THEN "valid"
    ELSE "invalid"

\* RasterIORasterInterface.min_max: [raised, min, max]; raised is "NoData"
\* for the NoData exception, "other" for any other exception of the backend
min_max(raster) ==
    IF raster.band_count = 0 THEN [raised |-> "no", min |-> None, max |-> None]
    ELSE IF raster.statistics = "no valid pixels found"
        THEN [raised |-> "NoData", min |-> None, max |-> None]
    ELSE IF raster.statistics = "error"
        THEN [raised |-> "other", min |-> None, max |-> None]
    ELSE [raised |-> "no", min |-> Some(raster.min), max |-> Some(raster.max)]

\* RasterRangeCheck.__init__ raises ValueError
RasterRangeCheck_init_raises(min_value, max_value) ==
    min_value = None /\ max_value = None

\* RasterRangeCheck.is_valid
RasterRangeCheck_is_valid_inclusive(self, raster) ==
    IF ~raster.is_valid_geotiff THEN "valid"
    ELSE LET mm == min_max(raster)
         IN  IF mm.raised = "NoData" THEN "invalid"
             ELSE IF mm.raised = "other" THEN "raise"
             ELSE IF mm.min = None \/ mm.max = None THEN "invalid"
             ELSE IF self.min_value # None /\ mm.min[1] < self.min_value[1] THEN "invalid"
             ELSE IF self.max_value # None /\ mm.max[1] > self.max_value[1] THEN "invalid"
             ELSE "valid"
RasterRangeCheck_is_valid(self, raster) ==
    IF ~raster.is_valid_geotiff THEN "valid"
    ELSE LET mm == min_max(raster)
         IN  IF mm.raised = "NoData" THEN "invalid"
             ELSE IF mm.raised = "other" THEN "raise"
             ELSE IF mm.min = None \/ mm.max = None THEN "invalid"
             ELSE IF /\ self.min_value # None
                     /\ \/ self.left_inclusive /\ mm.min[1] < self.min_value[1]
                        \/ ~self.left_inclusive /\ mm.min[1] <= self.min_value[1]
                 THEN "invalid"
             ELSE IF /\ self.max_value # None
                     /\ \/ self.right_inclusive /\ mm.max[1] > self.max_value[1]
                        \/ ~self.right_inclusive /\ mm.max[1] >= self.max_value[1]
                 THEN "invalid"
             ELSE "valid"

is_valid(chk, at, raster) ==
    IF chk.cls = "RasterHasMatchingEPSGCheck"
        THEN RasterHasMatchingEPSGCheck_is_valid(at.epsg_code, raster)
    ELSE IF chk.cls = "RasterGridSizeCheck"
        THEN RasterGridSizeCheck_is_valid(at.grid_space, raster)
    ELSE IF chk.cls = "RasterIsValidCheck" THEN RasterIsValidCheck_is_valid(raster)
    ELSE IF chk.cls = "RasterHasOneBandCheck" THEN RasterHasOneBandCheck_is_valid(raster)
    ELSE IF chk.cls = "RasterHasProjectionCheck"
        THEN RasterHasProjectionCheck_is_valid(raster)
    ELSE IF chk.cls = "RasterIsProjectedCheck" THEN RasterIsProjectedCheck_is_valid(raster)
    ELSE IF chk.cls = "RasterSquareCellsCheck" THEN RasterSquareCellsCheck_is_valid(raster)
    ELSE IF chk.cls = "RasterPixelCountCheck"
        THEN RasterPixelCountCheck_is_valid(chk.max_pixels, raster)
    ELSE IF chk.cls = "RasterRangeCheck" THEN RasterRangeCheck_is_valid(chk, raster)
    ELSE "valid"

\* query.limit(n)
Limit(rows, n) == IF Len(rows) <= n THEN rows ELSE SubSeq(rows, 1, n)

\* BaseRasterCheck.get_invalid over self.to_check(session)
BaseRasterCheck_get_invalid_unguarded(chk, at, to_check, ctx, fs) ==
    LET records == IF ctx.type = "server" THEN Limit(to_check, 1) ELSE to_check
        PathOf(r) == IF ctx.type = "server" THEN get_path_server(chk, ctx)
                     ELSE get_path_local(chk, r, fs)
        Outcome(r) == IF PathOf(r) = None THEN "skip"
                      ELSE is_valid(chk, at, FileAt(fs, PathOf(r)[1]))
    IN  Loop(records, [i \in 1..Len(records) |-> Outcome(records[i])])
BaseRasterCheck_get_invalid(chk, at, to_check, ctx, fs) ==
    IF ~ctx.available THEN Returned(<<>>)
    ELSE LET records == IF ctx.type = "server" THEN Limit(to_check, 1) ELSE to_check
             PathOf(r) == IF ctx.type = "server" THEN get_path_server(chk, ctx)
                          ELSE get_path_local(chk, r, fs)
             Outcome(r) == IF PathOf(r) = None THEN "skip"
                           ELSE is_valid(chk, at, FileAt(fs, PathOf(r)[1]))
         IN  Loop(records, [i \in 1..Len(records) |-> Outcome(records[i])])

\* RasterExistsCheck.get_invalid over self.to_check(session)
RasterExistsCheck_get_invalid(chk, to_check, ctx, fs) ==
    IF ctx.type = "server"
    THEN IF chk.column \in ctx.available_rasters
         THEN Returned(<<>>) ELSE Returned(to_check)
    ELSE LET Missing(r) == get_path_local(chk, r, fs) = None
         IN  Returned(SelectSeq(to_check, Missing))

\* GDALAvailableCheck.get_invalid
GDALAvailableCheck_get_invalid_inverted(ctx) ==
    IF ctx.available THEN Returned(<<[id |-> 1]>>) ELSE Returned(<<>>)
GDALAvailableCheck_get_invalid(ctx) ==
    IF ~ctx.available THEN Returned(<<[id |-> 1]>>) ELSE Returned(<<>>)

\* NotNullCheck.get_invalid over self.to_check(session)
NotNullCheck_get_invalid(chk, to_check) ==
    LET IsNull(r) == r[chk.column] = None
    IN  Returned(SelectSeq(to_check, IsNull))

\* BetaColumnsCheck.get_invalid: session.query(self.table).filter(column IS NOT NULL)
BetaColumnsCheck_get_invalid(chk, db) ==
    LET IsSet(r) == r[chk.column] # None
    IN  Returned(SelectSeq(BaseCheck_to_check(chk, db), IsSet))

(***************************************************************************)
(* The check instances.  CHECKS and beta_features_check are module-level   *)
(* lists of config.py, so every Config (every ThreediModelChecker of the   *)
(* process) holds the same instances.  Instances 10 and 11 are             *)
(* ConditionalChecks a caller builds around the registered instance 3;     *)
(* they are not part of CHECKS.  Instance 12 stands for a check registered *)
(* with is_beta_check set.                                                 *)
(***************************************************************************)
Levels == {"INFO", "WARNING", "ERROR"}
LevelRank(level) == IF level = "ERROR" THEN 3 ELSE IF level = "WARNING" THEN 2 ELSE 1

Check(cls, error_code, level, table, column) ==
    [cls |-> cls, error_code |-> error_code, level |-> level, table |-> table,
     column |-> column, is_beta_check |-> FALSE, shapes |-> None,
     minimum_distance |-> 0, check |-> 0, criterion |-> "none"]

Checks ==
    <<Check("OpenIncreasingCrossSectionConveyanceFrictionCheck", 28, "ERROR",
            "v2_cross_section_location", "id"),
      Check("CrossSectionConveyanceFrictionAdviceCheck", 29, "INFO",
            "v2_cross_section_location", "id"),
      Check("CrossSectionMinimumDiameterCheck", 98, "WARNING",
            "v2_cross_section_definition", "id"),
      [Check("ConnectionNodesDistance", 201, "WARNING", "v2_connection_nodes", "id")
           EXCEPT !.minimum_distance = 2],
      Check("SpatialIndexCheck", 207, "WARNING", "v2_connection_nodes", "the_geom"),
      Check("GDALAvailableCheck", 700, "WARNING", "v2_global_settings", "dem_file"),
      Check("RasterExistsCheck", 701, "ERROR", "v2_global_settings", "dem_file"),
      Check("RasterHasMatchingEPSGCheck", 797, "WARNING", "v2_global_settings", "dem_file"),
      Check("RasterGridSizeCheck", 798, "ERROR", "v2_global_settings", "dem_file"),
      [Check("ConditionalCheck", 0, "ERROR", "v2_cross_section_definition", "id")
           EXCEPT !.check = 3, !.criterion = "shape_is_tabulated"],
      [Check("ConditionalCheck", 0, "ERROR", "v2_cross_section_definition", "id")
           EXCEPT !.check = 3, !.criterion = "width_filled"],
      [Check("NotNullCheck", 3, "ERROR", "v2_global_settings", "grid_space")
           EXCEPT !.is_beta_check = TRUE],
      Check("BetaColumnsCheck", 1300, "ERROR", "v2_global_settings",
            "vegetation_drag_settings_id")>>

CheckIds == DOMAIN Checks

\* CHECKS of config.py, in declaration order
CHECKS == <<1, 2, 3, 4, 5, 6, 7, 8, 9, 12>>
beta_features_check == <<13>>

\* Config.generate_checks: self.checks
generate_checks(allow_beta_features) ==
    IF ~allow_beta_features THEN CHECKS \o beta_features_check ELSE CHECKS

\* Config.iter_checks(level)
iter_checks_above(checks, allow_beta_features, level) ==
    LET Kept(k) ==
            /\ ~(Checks[k].is_beta_check /\ ~allow_beta_features)
            /\ LevelRank(Checks[k].level) > LevelRank(level)
    IN  SelectSeq(checks, Kept)
iter_checks(checks, allow_beta_features, level) ==
    LET Kept(k) ==
            /\ ~(Checks[k].is_beta_check /\ ~allow_beta_features)
            /\ LevelRank(Checks[k].level) >= LevelRank(level)
    IN  SelectSeq(checks, Kept)

(***************************************************************************)
(* Instance state of a check: what evaluation can assign.                  *)
(*   to_check : the instance whose class-level to_check the attribute      *)
(*              check.to_check is bound to (the instance itself after      *)
(*              construction)                                              *)
(*   epsg_code, grid_space : None until assigned; `assigned` holds the     *)
(*              attribute names set since construction                     *)
(***************************************************************************)
Constructed(k) ==
    [to_check |-> k, epsg_code |-> None, grid_space |-> None, assigned |-> {}]

ConstructedAttrs == [k \in CheckIds |-> Constructed(k)]

\* the class-level to_check of instance j
ClassToCheck(j, db) ==
    IF Checks[j].cls = "ConditionalCheck"
        THEN LET Crit(r) == Criterion(Checks[j].criterion, r)
             IN  SelectSeq(BaseCheck_to_check(Checks[Checks[j].check], db), Crit)
    ELSE IF Checks[j].cls = "CrossSectionMinimumDiameterCheck"
        THEN CrossSectionBaseCheck_to_check(Checks[j], db)
    ELSE IF Checks[j].cls \in {"GDALAvailableCheck", "RasterExistsCheck",
                               "RasterHasMatchingEPSGCheck", "RasterGridSizeCheck"}
        THEN BaseRasterCheck_to_check(Checks[j], db)
    ELSE BaseCheck_to_check(Checks[j], db)

\* self.to_check(session) on instance k with instance state at
ToCheck(at, db) == ClassToCheck(at.to_check, db)

\* the body of get_invalid of a check that makes no nested call and assigns
\* nothing, evaluated in one step
Body(k, at, ses) ==
    LET chk == Checks[k]
    IN  IF chk.cls = "OpenIncreasingCrossSectionConveyanceFrictionCheck"
            THEN OpenIncreasingCrossSectionConveyanceFrictionCheck_get_invalid(ses.db)
        ELSE IF chk.cls = "CrossSectionConveyanceFrictionAdviceCheck"
            THEN CrossSectionConveyanceFrictionAdviceCheck_get_invalid(ses.db)
        ELSE IF chk.cls = "CrossSectionMinimumDiameterCheck"
            THEN CrossSectionMinimumDiameterCheck_get_invalid(ToCheck(at, ses.db))
        ELSE IF chk.cls = "ConnectionNodesDistance"
            THEN ConnectionNodesDistance_get_invalid(chk, ses.db)
        ELSE IF chk.cls = "SpatialIndexCheck"
            THEN SpatialIndexCheck_get_invalid(chk, ses.db)
        ELSE IF chk.cls = "GDALAvailableCheck"
            THEN GDALAvailableCheck_get_invalid(ses.ctx)
        ELSE IF chk.cls = "RasterExistsCheck"
            THEN RasterExistsCheck_get_invalid(chk, ToCheck(at, ses.db), ses.ctx, ses.fs)
        ELSE IF chk.cls = "NotNullCheck"
            THEN NotNullCheck_get_invalid(chk, ToCheck(at, ses.db))
        ELSE IF chk.cls = "BetaColumnsCheck"
            THEN BetaColumnsCheck_get_invalid(chk, ses.db)
        ELSE BaseRasterCheck_get_invalid(chk, at, ToCheck(at, ses.db), ses.ctx, ses.fs)

(***************************************************************************)
(* get_invalid, statement by statement.  A frame is one activation of      *)
(* get_invalid: [k, pc, old, res].  The machine [stack, attrs, done,       *)
(* result] is one thread's call stack together with the instance state of  *)
(* all checks; done with result when the outermost call has ended.         *)
(***************************************************************************)
FirstPc(k) ==
    IF Checks[k].cls = "ConditionalCheck" THEN "save"
    ELSE IF Checks[k].cls \in {"RasterHasMatchingEPSGCheck", "RasterGridSizeCheck"}
        THEN "query"
    ELSE "body"

Frame(k) == [k |-> k, pc |-> FirstPc(k), old |-> 0, res |-> Returned(<<>>)]

Pop(stack) == SubSeq(stack, 1, Len(stack) - 1)
SetTop(stack, f) == [stack EXCEPT ![Len(stack)] = f]

Running(stack, at) == [stack |-> stack, attrs |-> at, done |-> FALSE, result |-> Returned(<<>>)]
Ended(at, result) == [stack |-> <<>>, attrs |-> at, done |-> TRUE, result |-> result]

\* a callee returned or raised `result` to the frames left on `stack`: every
\* caller is a ConditionalCheck at `result = check.get_invalid(session)`; an
\* exception leaves it there, without the reset of check.to_check
RECURSIVE Deliver(_, _, _)
Deliver(stack, at, result) ==
    IF stack = <<>> THEN Ended(at, result)
    ELSE IF result.raised THEN Deliver(Pop(stack), at, result)
    ELSE Running(SetTop(stack, [stack[Len(stack)] EXCEPT !.pc = "restore", !.res = result]), at)

\* ConditionalCheck.get_invalid: check.to_check = old_applicable_func
ConditionalCheck_reset(old_applicable_func, patched) == old_applicable_func

\* RasterHasMatchingEPSGCheck.get_invalid: the value assigned to self.epsg_code
RasterHasMatchingEPSGCheck_epsg_code(db) ==
    IF db.settings = <<>> THEN None ELSE db.settings[1].epsg_code

\* RasterGridSizeCheck.get_invalid: grid_space_query is None, the early
\* `return []`
RasterGridSizeCheck_once(self, db) == db.settings = <<>> \/ "grid_space" \in self.assigned
RasterGridSizeCheck_no_grid_space(self, db) == db.settings = <<>>

\* one statement of the top frame
StepMachine(stack, at, ses) ==
    LET f == stack[Len(stack)]
        k == f.k
        chk == Checks[k]
    IN  IF chk.cls = "ConditionalCheck" THEN
            IF f.pc = "save"
                THEN Running(SetTop(stack, [f EXCEPT !.old = at[chk.check].to_check,
                                                     !.pc = "patch"]), at)
            ELSE IF f.pc = "patch"
                THEN Running(SetTop(stack, [f EXCEPT !.pc = "call"]),
                             [at EXCEPT ![chk.check].to_check = at[k].to_check])
            ELSE IF f.pc = "call"
                THEN Running(Append(SetTop(stack, [f EXCEPT !.pc = "wait"]), Frame(chk.check)), at)
            ELSE Deliver(Pop(stack),
                         [at EXCEPT ![chk.check].to_check =
                              ConditionalCheck_reset(f.old, at[chk.check].to_check)],
                         f.res)
        ELSE IF chk.cls = "RasterHasMatchingEPSGCheck" /\ f.pc = "query" THEN
            Running(SetTop(stack, [f EXCEPT !.pc = "body"]),
                    [at EXCEPT ![k].epsg_code = RasterHasMatchingEPSGCheck_epsg_code(ses.db),
                               ![k].assigned = @ \cup {"epsg_code"}])
        ELSE IF chk.cls = "RasterGridSizeCheck" /\ f.pc = "query" THEN
            IF RasterGridSizeCheck_no_grid_space(at[k], ses.db)
                THEN Deliver(Pop(stack), at, Returned(<<>>))
            ELSE Running(SetTop(stack, [f EXCEPT !.pc = "body"]),
                         [at EXCEPT ![k].grid_space = ses.db.settings[1].grid_space,
                                    ![k].assigned = @ \cup {"grid_space"}])
        ELSE Deliver(Pop(stack), at, Body(k, at[k], ses))

RECURSIVE RunMachine(_, _)
RunMachine(m, ses) ==
    IF m.done THEN m ELSE RunMachine(StepMachine(m.stack, m.attrs, ses), ses)

\* check.get_invalid(session) run by one thread without interruption:
\* [result, attrs]
get_invalid(k, at, ses) == RunMachine(Running(<<Frame(k)>>, at), ses)

(***************************************************************************)
(* Databases, contexts and file systems the runs are checked against       *)
(***************************************************************************)
XsecTables ==
    { \* no cross-sections
      [definitions |-> <<>>, locations |-> <<>>, pipes |-> <<>>],
      \* a tabulated rectangle "4 -2" (negative last width), in use
      [definitions |-> <<Def(1, TABULATED_RECTANGLE, <<"4", " ", "-", "2">>, <<"0", " ", "4">>)>>,
       locations |-> <<Loc(1, 1, "MANNING_CONVEYANCE")>>, pipes |-> <<>>],
      \* a small circle in use, a small tabulated rectangle not in use
      [definitions |-> <<Def(1, CIRCLE, <<"2">>, Null),
                         Def(2, TABULATED_RECTANGLE, <<"2">>, <<"0">>)>>,
       locations |-> <<Loc(1, 1, "CHEZY")>>, pipes |-> <<>>],
      \* an open trapezium with increasing width; an unparsable rectangle on a pipe
      [definitions |-> <<Def(1, TABULATED_TRAPEZIUM, <<"2", " ", "4">>, <<"0", " ", "2">>),
                         Def(2, RECTANGLE, <<"x">>, Empty)>>,
       locations |-> <<Loc(1, 1, "MANNING"), Loc(2, 1, "CHEZY_CONVEYANCE")>>,
       pipes |-> <<Pipe(1, 2)>>],
      \* a tabulated rectangle "4 -2" not in use, a small circle in use
      [definitions |-> <<Def(1, TABULATED_RECTANGLE, <<"4", " ", "-", "2">>, <<"0", " ", "4">>),
                         Def(2, CIRCLE, <<"2">>, Null)>>,
       locations |-> <<>>, pipes |-> <<Pipe(1, 2)>>] }

NodeTables ==
    { [nodes |-> <<>>, spatial_index |-> TRUE],
      [nodes |-> <<>>, spatial_index |-> FALSE],
      \* the middle node is within minimum_distance / 2 of both others
      [nodes |-> <<Node(1, 0), Node(2, 1), Node(3, 2)>>, spatial_index |-> TRUE],
      [nodes |-> <<Node(1, 0), Node(2, 5)>>, spatial_index |-> TRUE] }

Raster(epsg_code, pixel_size) ==
    [exists |-> TRUE, is_valid_geotiff |-> TRUE, has_projection |-> TRUE,
     epsg_code |-> epsg_code, pixel_size |-> pixel_size]

RdNew == Some(28992)
Wgs84 == Some(4326)

Files(file) == [p \in Paths |-> file]

\* v2_global_settings with the files its dem_file refers to
SettingTables ==
    { [settings |-> <<>>, fs |-> Files(NoFile)],
      [settings |-> <<Setting(1, RdNew, Some(4), Null, None)>>, fs |-> Files(NoFile)],
      \* the file is not there
      [settings |-> <<Setting(1, RdNew, Some(4), <<"a">>, None)>>, fs |-> Files(NoFile)],
      \* a raster that matches the settings
      [settings |-> <<Setting(1, RdNew, Some(4), <<"a">>, Some(5))>>,
       fs |-> Files(Raster(RdNew, Some(2)))],
      [settings |-> <<Setting(1, Wgs84, None, <<"a">>, None)>>,
       fs |-> Files(Raster(Wgs84, Some(2)))],
      \* a raster with another EPSG code and a cell size that does not fit
      [settings |-> <<Setting(1, RdNew, Some(6), <<"a">>, None)>>,
       fs |-> Files(Raster(Wgs84, Some(2)))] }

LocalContext(available) ==
    [type |-> "local", available |-> available, is_dict |-> FALSE,
     available_rasters |-> {}, url |-> <<"a">>]
ServerContext(available_rasters, is_dict) ==
    [type |-> "server", available |-> TRUE, is_dict |-> is_dict,
     available_rasters |-> available_rasters, url |-> <<"a">>]

Contexts ==
    { LocalContext(TRUE), LocalContext(FALSE),
      ServerContext({"dem_file"}, TRUE), ServerContext({}, FALSE) }

Database(x, n, s, version) ==
    [definitions |-> x.definitions, locations |-> x.locations, pipes |-> x.pipes,
     nodes |-> n.nodes, spatial_index |-> n.spatial_index, settings |-> s.settings,
     version |-> version]

MIN_SCHEMA_VERSION == 201

Session(x, n, s, c) ==
    [db |-> Database(x, n, s, Some(MIN_SCHEMA_VERSION)), ctx |-> c, fs |-> s.fs]

Sessions == {Session(x, n, s, c) : x \in XsecTables, n \in NodeTables,
                                   s \in SettingTables, c \in Contexts}

(***************************************************************************)
(* State                                                                   *)
(*   checker : "new" before ThreediModelChecker(...), then "ready" or      *)
(*             "raised" (the constructor raised, there is no checker)      *)
(*   config  : the checker's Config [allow_beta_features, checks]          *)
(*   ses     : thread -> the session [db, ctx, fs] it validates            *)
(*   attrs   : check -> instance state, shared by all threads              *)
(*   stack   : thread -> frames of the get_invalid call in progress        *)
(*   run     : thread -> the errors(level) generator                       *)
(*             [status, level, selected, cursor, yielded]                  *)
(*   calls   : thread -> [left, last, streak]: the outermost get_invalid   *)
(*             calls left, the last one ended [check, result], and how     *)
(*             many times in a row that check has now been called          *)
(*   eval    : [kind, arg, op, out]: one function or check applied on its  *)
(*             own to the argument arg; op is "none" until it has run      *)
(***************************************************************************)
VARIABLES checker, config, ses, attrs, stack, run, calls, eval
vars == <<checker, config, ses, attrs, stack, run, calls, eval>>

Threads == DOMAIN ses

NoCall == [check |-> 0, result |-> Returned(<<>>)]
NoRun == [status |-> "idle", level |-> "ERROR", selected |-> <<>>, cursor |-> 1,
          yielded |-> <<>>]
NoConfig == [allow_beta_features |-> FALSE, checks |-> <<>>]
\* no single check or function is being evaluated on its own
NoEval == [kind |-> "none", arg |-> <<>>, op |-> "none", out |-> <<>>]

\* the record of an ended outermost call of get_invalid
Called(c, k, result) ==
    [left |-> c.left, last |-> [check |-> k, result |-> result],
     streak |-> IF c.last.check = k /\ c.streak < 2 THEN c.streak + 1
                ELSE IF c.last.check = k THEN c.streak ELSE 1]

(***************************************************************************)
(* ThreediModelChecker                                                     *)
(***************************************************************************)
\* ModelSchema.validate_schema raises MigrationMissingError
validate_schema_raises(version) == version = None \/ version[1] < MIN_SCHEMA_VERSION

\* ThreediModelChecker.__init__ raises
ThreediModelChecker_init_raises_on_schema(db, context_type) ==
    validate_schema_raises(db.version)
ThreediModelChecker_init_raises(db, context_type) ==
    \/ validate_schema_raises(db.version)
    \/ context_type \notin {"local", "server"}

\* ThreediModelChecker(threedi_db, context), Config(models, allow_beta_features)
Construct(allow_beta_features) ==
    /\ checker = "new"
    /\ IF ThreediModelChecker_init_raises(ses[1].db, ses[1].ctx.type)
       THEN checker' = "raised" /\ UNCHANGED config
       ELSE /\ checker' = "ready"
            /\ config' = [allow_beta_features |-> allow_beta_features,
                          checks |-> generate_checks(allow_beta_features)]
    /\ UNCHANGED <<ses, attrs, stack, run, calls, eval>>

\* errors(level) is called: the generator starts
Errors(level) ==
    /\ checker = "ready"
    /\ run[1].status = "idle"
    /\ run' = [run EXCEPT ![1] =
                 [status |-> "running", level |-> level,
                  selected |-> iter_checks(config.checks, config.allow_beta_features, level),
                  cursor |-> 1, yielded |-> <<>>]]
    /\ UNCHANGED <<checker, config, ses, attrs, stack, calls, eval>>

\* the pairs errors() yields for one check
Pairs(k, rows) == [i \in 1..Len(rows) |-> <<k, rows[i]>>]

\* one pass of `for check in self.checks(level=level)`: get_invalid, then a
\* yield per row; an exception leaves the generator
Evaluate ==
    /\ run[1].status = "running"
    /\ run[1].cursor <= Len(run[1].selected)
    /\ LET k == run[1].selected[run[1].cursor]
           m == get_invalid(k, attrs, ses[1])
       IN  /\ attrs' = m.attrs
           /\ calls' = [calls EXCEPT ![1] = Called(calls[1], k, m.result)]
           /\ run' = [run EXCEPT ![1] =
                        IF m.result.raised THEN [@ EXCEPT !.status = "aborted"]
                        ELSE [@ EXCEPT !.cursor = @ + 1,
                                       !.yielded = @ \o Pairs(k, m.result.rows)]]
    /\ UNCHANGED <<checker, config, ses, stack, eval>>

\* the loop of errors() is exhausted
Finish ==
    /\ run[1].status = "running"
    /\ run[1].cursor > Len(run[1].selected)
    /\ run' = [run EXCEPT ![1].status = "done"]
    /\ UNCHANGED <<checker, config, ses, attrs, stack, calls, eval>>

(***************************************************************************)
(* Direct callers of check.get_invalid(session), one per thread            *)
(***************************************************************************)
Begin(t, k) ==
    /\ stack[t] = <<>>
    /\ calls[t].left > 0
    /\ stack' = [stack EXCEPT ![t] = <<Frame(k)>>]
    /\ calls' = [calls EXCEPT ![t].left = @ - 1]
    /\ UNCHANGED <<checker, config, ses, attrs, run, eval>>

Step(t) ==
    /\ stack[t] # <<>>
    /\ LET m == StepMachine(stack[t], attrs, ses[t])
       IN  /\ attrs' = m.attrs
           /\ stack' = [stack EXCEPT ![t] = m.stack]
           /\ calls' = IF m.done
                       THEN [calls EXCEPT ![t] = Called(calls[t], stack[t][1].k, m.result)]
                       ELSE calls
    /\ UNCHANGED <<checker, config, ses, run, eval>>

(***************************************************************************)
(* Specifications                                                          *)
(***************************************************************************)
InitWith(sessions, left, state) ==
    /\ ses = sessions
    /\ checker = state
    /\ config = NoConfig
    /\ attrs = ConstructedAttrs
    /\ stack = [t \in DOMAIN sessions |-> <<>>]
    /\ run = [t \in DOMAIN sessions |-> NoRun]
    /\ calls = [t \in DOMAIN sessions |-> [left |-> left, last |-> NoCall, streak |-> 0]]
    /\ eval = NoEval

\* what a caller may pass for the database and the context
Inputs ==
    Sessions
    \cup {[s EXCEPT !.db.version = v] : s \in Sessions, v \in {None, Some(MIN_SCHEMA_VERSION - 1)}}
    \cup {[s EXCEPT !.ctx.type = "other"] : s \in Sessions}

\* one validation run: construct the checker, iterate errors(level)
Init == \E s \in Inputs : InitWith(<<s>>, 0, "new")

Next ==
    \/ \E allow_beta_features \in BOOLEAN : Construct(allow_beta_features)
    \/ \E level \in Levels : Errors(level)
    \/ Evaluate
    \/ Finish

Spec == Init /\ [][Next]_vars

\* sessions of a caller that evaluates checks one by one
NoRows == [definitions |-> <<>>, locations |-> <<>>, pipes |-> <<>>]
NoSettings == [settings |-> <<>>, fs |-> Files(NoFile)]
ThreeNodes == [nodes |-> <<Node(1, 0), Node(2, 1), Node(3, 2)>>, spatial_index |-> TRUE]

EmptySessions ==
    {Session(NoRows, n, NoSettings, c) : n \in {m \in NodeTables : m.nodes = <<>>},
                                        c \in Contexts}
Mismatch == [settings |-> <<Setting(1, RdNew, Some(6), <<"a">>, None)>>,
             fs |-> Files(Raster(Wgs84, Some(2)))]
DirectSessions ==
    EmptySessions
    \cup {Session(x, ThreeNodes, Mismatch, LocalContext(TRUE)) : x \in XsecTables}
    \cup {Session(NoRows, ThreeNodes, s, c) : s \in SettingTables, c \in Contexts}

\* one caller evaluating up to MaxCalls checks, in any order
InitDirect == \E s \in DirectSessions : InitWith(<<s>>, MaxCalls, "ready")

NextDirect ==
    \/ \E k \in CheckIds : Begin(1, k)
    \/ Step(1)

SpecDirect == InitDirect /\ [][NextDirect]_vars

\* sessions of two runs (threads) of one process; nothing in them makes a
\* check raise
Matching == [settings |-> <<Setting(1, RdNew, Some(4), <<"a">>, None)>>,
             fs |-> Files(Raster(RdNew, Some(2)))]
MatchingWgs84 == [settings |-> <<Setting(1, Wgs84, Some(4), <<"a">>, None)>>,
                  fs |-> Files(Raster(Wgs84, Some(2)))]
SmallCircle ==
    [definitions |-> <<Def(1, CIRCLE, <<"2">>, Null),
                       Def(2, TABULATED_RECTANGLE, <<"2">>, <<"0">>)>>,
     locations |-> <<Loc(1, 1, "CHEZY")>>, pipes |-> <<>>]

ConcSessions ==
    {Session(SmallCircle, ThreeNodes, s, LocalContext(TRUE)) : s \in {Matching, MatchingWgs84}}

\* two threads, each evaluating up to MaxConcCalls checks on the shared instances
InitConc == \E s1, s2 \in ConcSessions : InitWith(<<s1, s2>>, MaxConcCalls, "ready")

NextConc ==
    \E t \in {1, 2} :
        \/ \E k \in CheckIds : Begin(t, k)
        \/ Step(t)

SpecConc == InitConc /\ [][NextConc]_vars

(***************************************************************************)
(* SQLite string functions used by CrossSectionSameConfigurationCheck; a   *)
(* REAL is None (NULL) or Some(n)                                          *)
(***************************************************************************)
\* instr(s, c): the position of the first c in s, 0 when there is none
Instr(s, c) ==
    IF \E i \in 1..Len(s) : s[i] = c
    THEN CHOOSE i \in 1..Len(s) : s[i] = c /\ \A j \in 1..(i - 1) : s[j] # c
    ELSE 0

\* substr(s, 1, z): the first z characters; nothing precedes the first
\* character, so a negative z gives ''
Substr1(s, z) ==
    IF z <= 0 THEN <<>> ELSE IF z >= Len(s) THEN s ELSE SubSeq(s, 1, z)

\* rtrim(s, chars): s without its trailing characters that occur in chars
RECURSIVE RTrim(_, _)
RTrim(s, chars) ==
    IF s # <<>> /\ s[Len(s)] \in SeqToSet(chars)
    THEN RTrim(SubSeq(s, 1, Len(s) - 1), chars)
    ELSE s

StartsWith(s, p) == Len(p) <= Len(s) /\ SubSeq(s, 1, Len(p)) = p

\* replace(s, p, ''): s without the occurrences of p; an empty p changes nothing
RECURSIVE Remove(_, _)
Remove(s, p) ==
    IF p = <<>> \/ s = <<>> THEN s
    ELSE IF StartsWith(s, p) THEN Remove(SubSeq(s, Len(p) + 1, Len(s)), p)
    ELSE <<Head(s)>> \o Remove(Tail(s), p)

\* the digits a text starts with
RECURSIVE LeadingDigits(_)
LeadingDigits(s) ==
    IF s # <<>> /\ Head(s) \in Digits THEN <<Head(s)>> \o LeadingDigits(Tail(s)) ELSE <<>>

\* cast(s AS REAL): the longest numeric prefix of s after leading spaces, 0.0
\* when there is none
RECURSIVE CastReal(_)
CastReal(s) ==
    IF s # <<>> /\ Head(s) = " " THEN CastReal(Tail(s))
    ELSE IF s # <<>> /\ Head(s) = "-" THEN 0 - DecVal(LeadingDigits(Tail(s)), 0)
    ELSE DecVal(LeadingDigits(s), 0)

\* CrossSectionSameConfigurationCheck.first_number_in_spaced_string
first_number_in_spaced_string(spaced_string) ==
    IF spaced_string = Null THEN None
    ELSE Some(CastReal(Substr1(spaced_string, Instr(spaced_string, " ") - 1)))

\* CrossSectionSameConfigurationCheck.last_number_in_spaced_string
last_number_in_spaced_string(spaced_string) ==
    IF spaced_string = Null THEN None
    ELSE LET NotSpace(c) == c # " "
         IN  Some(CastReal(Remove(spaced_string,
                                  RTrim(spaced_string, SelectSeq(spaced_string, NotSpace)))))

\* a comparison of two REALs is true (a NULL operand makes it NULL, not true)
SqlEq(a, b) == a # None /\ b # None /\ a[1] = b[1]
SqlNe(a, b) == a # None /\ b # None /\ a[1] # b[1]
SqlGt(a, b) == a # None /\ b # None /\ a[1] > b[1]

\* CrossSectionSameConfigurationCheck.configuration_type: the CASE expression
configuration_type(shape, first_width, last_width, first_height, last_height) ==
    IF \/ shape \in {0, 2, 3, 8}
       \/ (shape \in {5, 6} /\ SqlEq(last_width, Some(0)))
       \/ (shape = 7 /\ SqlEq(first_width, last_width) /\ SqlEq(first_height, last_height))
        THEN "closed"
    ELSE IF \/ shape = 1
            \/ (shape \in {5, 6} /\ SqlGt(last_width, Some(0)))
            \/ (shape = 7 /\ (SqlNe(first_width, last_width) \/ SqlNe(first_height, last_height)))
        THEN "open"
    ELSE "open"

\* the column `configuration` of cross_sections_with_configuration for a
\* definition row
SqlConfiguration(definition) ==
    configuration_type(definition.shape,
                       first_number_in_spaced_string(definition.width),
                       last_number_in_spaced_string(definition.width),
                       first_number_in_spaced_string(definition.height),
                       last_number_in_spaced_string(definition.height))

(***************************************************************************)
(* Single checks and functions applied on their own.  eval.arg is what the *)
(* caller passes: the constructor arguments of the check and the rows of   *)
(* the tables it queries.  A nullable column holds None (NULL) or Some(v). *)
(***************************************************************************)
\* the state before the evaluation of input i
Evaluating(i) == [kind |-> i.kind, arg |-> i.arg, op |-> "none", out |-> <<>>]

\* eval after operation op has produced out
Evaluated(op, out) == [eval EXCEPT !.op = op, !.out = out]

\* BaseCheck.__init__(column): `self.table = column.table` raises
\* AttributeError when `column` is a tuple of columns and not a Column
BaseCheck_init_raises(column) == column.is_tuple

\* the values of the columns `names` in row r
Key(r, names) == [i \in 1..Len(names) |-> r[names[i]]]

\* UniqueCheck.get_invalid: the rows whose value of self.column is among
\*   SELECT column FROM table GROUP BY column HAVING count(column) > 1
\* count(column) does not count NULL, and NULL IN (...) is never true
UniqueCheck_get_invalid(column, to_check, table) ==
    LET name == column.names[1]
        Occurrences(v) == Cardinality({i \in 1..Len(table) : table[i][name] = v})
        duplicate_values ==
            {v \in {table[i][name] : i \in 1..Len(table)} : v # None /\ Occurrences(v) > 1}
        Duplicate(r) == r[name] \in duplicate_values
    IN  Returned(SelectSeq(to_check, Duplicate))

\* v2_aggregation_settings [id, flow_variable, aggregation_method]
Aggregation(id, flow_variable, aggregation_method) ==
    [id |-> id, flow_variable |-> flow_variable, aggregation_method |-> aggregation_method]

Column(name) == [is_tuple |-> FALSE, names |-> <<name>>]
Columns(names) == [is_tuple |-> TRUE, names |-> names]

UniqueInputs ==
    {[kind |-> "unique",
      arg |-> [column |-> c,
               rows |-> <<Aggregation(1, f1, Some(1)), Aggregation(2, f2, m2),
                          Aggregation(3, f3, m3)>>]] :
        c \in {Column("flow_variable"), Columns(<<"flow_variable", "aggregation_method">>)},
        f1 \in {None, Some(1)}, f2 \in {None, Some(1), Some(2)}, f3 \in {None, Some(1), Some(2)},
        m2 \in {Some(1), Some(2)}, m3 \in {Some(1), Some(2)}}

\* UniqueCheck(column).get_invalid(session)
EvalUniqueCheck ==
    /\ eval.kind = "unique"
    /\ eval.op = "none"
    /\ eval' = Evaluated("UniqueCheck",
                         IF BaseCheck_init_raises(eval.arg.column) THEN Raised
                         ELSE UniqueCheck_get_invalid(eval.arg.column, eval.arg.rows,
                                                      eval.arg.rows))
    /\ UNCHANGED <<checker, config, ses, attrs, stack, run, calls>>

\* RangeCheck.__init__(lower_limit, upper_limit, *args, **kwargs) hands every
\* other argument to BaseCheck.__init__(column): a bound can only be asked to
\* be exclusive by an argument that __init__ does not know, a TypeError
RangeCheck_init_raises(left_inclusive, right_inclusive) ==
    ~left_inclusive \/ ~right_inclusive

\* RangeCheck.get_invalid: a comparison with NULL is never true; without any
\* limit the query is not filtered at all
RangeCheck_get_invalid(lower_limit, upper_limit, column, to_check) ==
    LET Below(r) == r[column] # None /\ r[column][1] < lower_limit[1]
        Above(r) == r[column] # None /\ r[column][1] > upper_limit[1]
        Outside(r) == Below(r) \/ Above(r)
    IN  IF lower_limit # None /\ upper_limit # None
            THEN Returned(SelectSeq(to_check, Outside))
        ELSE IF lower_limit # None THEN Returned(SelectSeq(to_check, Below))
        ELSE IF upper_limit # None THEN Returned(SelectSeq(to_check, Above))
        ELSE Returned(to_check)

\* a row with a nullable numeric column
Valued(id, value) == [id |-> id, value |-> value]

RangeValues == {None, Some(0 - 1), Some(0), Some(41), Some(42), Some(43)}

RangeInputs ==
    {[kind |-> "range",
      arg |-> [lower_limit |-> lo, upper_limit |-> hi,
               left_inclusive |-> li, right_inclusive |-> ri,
               rows |-> <<Valued(1, v1), Valued(2, v2)>>]] :
        lo \in {None, Some(0)}, hi \in {None, Some(42)}, li \in BOOLEAN, ri \in BOOLEAN,
        v1 \in RangeValues, v2 \in RangeValues}

\* RangeCheck(lower_limit, upper_limit, column=...).get_invalid(session)
EvalRangeCheck ==
    /\ eval.kind = "range"
    /\ eval.op = "none"
    /\ eval' = Evaluated("RangeCheck",
                         IF RangeCheck_init_raises(eval.arg.left_inclusive,
                                                   eval.arg.right_inclusive)
                         THEN Raised
                         ELSE RangeCheck_get_invalid(eval.arg.lower_limit, eval.arg.upper_limit,
                                                     "value", eval.arg.rows))
    /\ UNCHANGED <<checker, config, ses, attrs, stack, run, calls>>

\* the float list a caller passes for a text column: [] for NULL and ""
Parsed(text) == IF text \in {Null, Empty} THEN <<>> ELSE FloatList(text)

\* both columns of a definition are absent or parse
Parsable(definition) ==
    /\ definition.width \in {Null, Empty} \/ ~FloatListFails(definition.width)
    /\ definition.height \in {Null, Empty} \/ ~FloatListFails(definition.height)

WidthTexts ==
    { Null, Empty, <<"4">>, <<"0">>, <<"x">>,
      <<"2", " ", "4">>, <<"4", " ", "0">>, <<"4", " ", "-", "2">>,
      <<"0", " ", "4", " ", "0">>, <<"2", " ", "4", " ", "2">> }

HeightTexts ==
    { Null, Empty, <<"4">>, <<"0", " ", "2">>, <<"0", " ", "4">>,
      <<"0", " ", "2", " ", "0">>, <<"2", " ", "4", " ", "2">>,
      <<"0", " ", "2", " ", "4">> }

DefinitionInputs ==
    {[kind |-> "definition", arg |-> Def(1, shape, width, height)] :
        shape \in CrossSectionShape, width \in WidthTexts, height \in HeightTexts}

\* cross_section_configuration(shape=..., heights=..., widths=...) on the
\* parsed columns of a definition
EvalClassify ==
    /\ eval.kind = "definition"
    /\ eval.op = "none"
    /\ Parsable(eval.arg)
    /\ eval' = Evaluated("cross_section_configuration",
                         cross_section_configuration(eval.arg.shape, Parsed(eval.arg.height),
                                                     Parsed(eval.arg.width)))
    /\ UNCHANGED <<checker, config, ses, attrs, stack, run, calls>>

\* the SQL expression `configuration` evaluated for a definition
EvalConfigurationType ==
    /\ eval.kind = "definition"
    /\ eval.op = "none"
    /\ eval' = Evaluated("configuration_type", SqlConfiguration(eval.arg))
    /\ UNCHANGED <<checker, config, ses, attrs, stack, run, calls>>

\* v2_channel [id] and v2_cross_section_location [id, channel_id, definition_id]
Channel(id) == [id |-> id]
ChannelLoc(id, channel_id, definition_id) ==
    [id |-> id, channel_id |-> channel_id, definition_id |-> definition_id,
     friction_type |-> "MANNING"]

\* is_valid_value(input): input in ["", None] or every token is a float
is_valid_value(input) == input \in {Null, Empty} \/ ~FloatListFails(input)

\* CrossSectionSameConfigurationCheck.get_invalid: the channels with more than
\* one distinct `configuration` among the locations joined to their
\* definition; [] as soon as any definition of the table has a width or a
\* height that is_valid_value rejects
CrossSectionSameConfigurationCheck_get_invalid(to_check, db) ==
    LET cross_sections ==
            {<<db.locations[i], db.definitions[j]>> :
                 i \in 1..Len(db.locations), j \in 1..Len(db.definitions)}
        joined == {p \in cross_sections : p[1].definition_id = p[2].id}
        Configurations(channel_id) ==
            {SqlConfiguration(p[2]) : p \in {q \in joined : q[1].channel_id = channel_id}}
        filtered_cross_sections ==
            {p[1].channel_id : p \in {q \in joined :
                                          Cardinality(Configurations(q[1].channel_id)) > 1}}
        error_in_cross_sections ==
            \E j \in 1..Len(db.definitions) :
                \/ ~is_valid_value(db.definitions[j].width)
                \/ ~is_valid_value(db.definitions[j].height)
        Filtered(channel) == channel.id \in filtered_cross_sections
    IN  IF ~error_in_cross_sections THEN Returned(SelectSeq(to_check, Filtered))
        ELSE Returned(<<>>)

\* definitions two channels may carry: lengths are in units of 0.025 m
DefinitionKinds ==
    { Def(0, RECTANGLE, <<"4">>, <<"4">>),
      Def(0, RECTANGLE, <<"x">>, Empty),
      Def(0, CIRCLE, <<"4">>, Null),
      Def(0, CIRCLE, <<"2">>, Null),
      Def(0, CLOSED_RECTANGLE, <<"4">>, <<"2">>),
      Def(0, TABULATED_RECTANGLE, <<"4", " ", "0">>, <<"0", " ", "4">>),
      Def(0, TABULATED_RECTANGLE, <<"4", " ", "-", "2">>, <<"0", " ", "4">>),
      Def(0, TABULATED_TRAPEZIUM, <<"0", " ", "4">>, <<"0", " ", "2">>),
      Def(0, TABULATED_YZ, <<"4">>, <<"4">>) }

\* two channels; location 1 on channel 1, location 2 on channel 1 or 2; a
\* third definition that no location or pipe refers to
ChannelInputs ==
    {[kind |-> "channels",
      arg |-> [channels |-> <<Channel(1), Channel(2)>>,
               definitions |-> <<[d1 EXCEPT !.id = 1], [d2 EXCEPT !.id = 2],
                                 [d3 EXCEPT !.id = 3]>>,
               locations |-> <<ChannelLoc(1, 1, 1), ChannelLoc(2, c2, 2)>>,
               pipes |-> <<>>]] :
        d1 \in DefinitionKinds, d2 \in DefinitionKinds,
        d3 \in {Def(0, CIRCLE, <<"4">>, Null), Def(0, RECTANGLE, <<"x">>, Empty)},
        c2 \in {1, 2}}

\* CrossSectionSameConfigurationCheck(column=Channel.id).get_invalid(session)
EvalSameConfiguration ==
    /\ eval.kind = "channels"
    /\ eval.op = "none"
    /\ eval' = Evaluated("CrossSectionSameConfigurationCheck",
                         CrossSectionSameConfigurationCheck_get_invalid(eval.arg.channels,
                                                                        eval.arg))
    /\ UNCHANGED <<checker, config, ses, attrs, stack, run, calls>>

\* CrossSectionMinimumDiameterCheck(column=CrossSectionDefinition.id).get_invalid(session)
EvalMinimumDiameter ==
    /\ eval.kind = "channels"
    /\ eval.op = "none"
    /\ eval' = Evaluated("CrossSectionMinimumDiameterCheck",
                         CrossSectionMinimumDiameterCheck_get_invalid(
                             CrossSectionBaseCheck_to_check(Checks[3], eval.arg)))
    /\ UNCHANGED <<checker, config, ses, attrs, stack, run, calls>>

\* v2_potential_breach joined to its channel: [id, channel_id, position],
\* position being the distance along the channel in units of 0.5 m
Breach(id, channel_id, position) ==
    [id |-> id, channel_id |-> channel_id, position |-> position]

\* key=lambda x: (x.channel_id, x[-1])
BreachBefore(a, b) ==
    a.channel_id < b.channel_id \/ (a.channel_id = b.channel_id /\ a.position < b.position)

\* sorted(..., key=...): stable, rows with equal keys keep their order
RECURSIVE Insert(_, _)
Insert(sorted, row) ==
    IF sorted = <<>> THEN <<row>>
    ELSE IF BreachBefore(row, Head(sorted)) THEN <<row>> \o sorted
    ELSE <<Head(sorted)>> \o Insert(Tail(sorted), row)

RECURSIVE Sorted(_)
Sorted(rows) ==
    IF rows = <<>> THEN <<>>
    ELSE Insert(Sorted(SubSeq(rows, 1, Len(rows) - 1)), rows[Len(rows)])

\* the loop of PotentialBreachInterdistanceCheck.get_invalid over the sorted
\* rows: prev_channel_id and prev_position are assigned only where the
\* channel changes
RECURSIVE Sweep(_, _, _, _)
Sweep(potential_breaches, prev_channel_id, prev_position, min_distance) ==
    IF potential_breaches = <<>> THEN <<>>
    ELSE LET breach == Head(potential_breaches)
             rest == Tail(potential_breaches)
         IN  IF breach.channel_id # prev_channel_id
                 THEN Sweep(rest, breach.channel_id, breach.position, min_distance)
             ELSE IF breach.position = prev_position
                 THEN Sweep(rest, prev_channel_id, prev_position, min_distance)
             ELSE IF breach.position - prev_position <= min_distance
                 THEN <<breach>> \o Sweep(rest, prev_channel_id, prev_position, min_distance)
             ELSE Sweep(rest, prev_channel_id, prev_position, min_distance)

PotentialBreachInterdistanceCheck_get_invalid(min_distance, rows) ==
    Returned(Sweep(Sorted(rows), 0 - 9999, 0 - 1, min_distance))

BreachPositions == {0, 1, 2, 10, 11}

BreachInputs ==
    {[kind |-> "breaches",
      arg |-> [min_distance |-> 2,
               rows |-> <<Breach(1, 1, p1), Breach(2, c2, p2), Breach(3, c3, p3)>>]] :
        p1 \in BreachPositions, p2 \in BreachPositions, p3 \in BreachPositions,
        c2 \in {1, 2}, c3 \in {1, 2}}

\* PotentialBreachInterdistanceCheck(column, min_distance=...).get_invalid(session)
EvalInterdistance ==
    /\ eval.kind = "breaches"
    /\ eval.op = "none"
    /\ eval' = Evaluated("PotentialBreachInterdistanceCheck",
                         PotentialBreachInterdistanceCheck_get_invalid(eval.arg.min_distance,
                                                                       eval.arg.rows))
    /\ UNCHANGED <<checker, config, ses, attrs, stack, run, calls>>

\* one check or function applied to one argument
(***************************************************************************)
(* Raster checks on their own: one check, one v2_global_settings table,    *)
(* one context and the file behind path "a".  The raster interface reads a *)
(* file as                                                                  *)
(*   [exists, is_valid_geotiff, band_count, has_projection, is_geographic, *)
(*    epsg_code, pixel_size, shape, statistics, min, max]                  *)
(* with shape None when the file could not be opened as a dataset and      *)
(* statistics the way the band statistics end: "values", "no valid pixels  *)
(* found" or "error".                                                       *)
(***************************************************************************)
MaxPixels == 4

GeoTiff ==
    [exists |-> TRUE, is_valid_geotiff |-> TRUE, band_count |-> 1, has_projection |-> TRUE,
     is_geographic |-> FALSE, epsg_code |-> RdNew, pixel_size |-> <<1, 1>>,
     shape |-> <<2, 2>>, statistics |-> "values", min |-> 1, max |-> 3]

\* a file no driver opens (rasterio.open raises, self._dataset = None)
TextFile == [NoFile EXCEPT !.exists = TRUE]

\* a raster of another driver than GTiff
OtherFormat(shape) == [GeoTiff EXCEPT !.is_valid_geotiff = FALSE, !.shape = shape]

RasterValues == 0..4

GeoTiffs ==
    {[GeoTiff EXCEPT !.min = lo, !.max = hi] : lo \in RasterValues, hi \in RasterValues}
    \cup {[GeoTiff EXCEPT !.band_count = n] : n \in {0, 2}}
    \cup {[GeoTiff EXCEPT !.has_projection = FALSE, !.epsg_code = None],
          [GeoTiff EXCEPT !.is_geographic = TRUE, !.epsg_code = Wgs84],
          [GeoTiff EXCEPT !.epsg_code = None],
          [GeoTiff EXCEPT !.shape = <<3, 3>>],
          [GeoTiff EXCEPT !.statistics = "no valid pixels found"],
          [GeoTiff EXCEPT !.statistics = "error"]}
    \cup {[GeoTiff EXCEPT !.pixel_size = p] : p \in {None, <<0, 0>>, <<1, 2>>, <<2, 2>>, <<3, 3>>}}

RasterFiles ==
    {f \in GeoTiffs : f.min <= f.max}
    \cup {TextFile, NoFile, OtherFormat(<<2, 2>>), OtherFormat(<<3, 3>>)}

\* a raster check on v2_global_settings.dem_file; a RasterRangeCheck exists
\* only with a bound, its constructor raises without
RasterCheck(cls, min_value, max_value, left_inclusive, right_inclusive) ==
    [cls |-> cls, table |-> "v2_global_settings", column |-> "dem_file",
     max_pixels |-> MaxPixels, min_value |-> min_value, max_value |-> max_value,
     left_inclusive |-> left_inclusive, right_inclusive |-> right_inclusive]

MetricClasses ==
    {"RasterHasOneBandCheck", "RasterHasProjectionCheck", "RasterIsProjectedCheck",
     "RasterHasMatchingEPSGCheck", "RasterSquareCellsCheck", "RasterGridSizeCheck",
     "RasterPixelCountCheck", "RasterRangeCheck"}

\* the checks that go through BaseRasterCheck.get_invalid
OpeningClasses == MetricClasses \cup {"RasterIsValidCheck"}

RasterChecks ==
    {RasterCheck(cls, Some(1), None, TRUE, TRUE) :
         cls \in (OpeningClasses \ {"RasterRangeCheck"})
                     \cup {"RasterExistsCheck", "GDALAvailableCheck"}}
    \cup {c \in {RasterCheck("RasterRangeCheck", lo, hi, li, ri) :
                      lo \in {None, Some(1)}, hi \in {None, Some(3)},
                      li \in BOOLEAN, ri \in BOOLEAN} :
              ~RasterRangeCheck_init_raises(c.min_value, c.max_value)}

RasterContexts ==
    LET Servers == {ServerContext(names, is_dict) :
                        names \in {{}, {"dem_file"}}, is_dict \in BOOLEAN}
    IN  {LocalContext(TRUE), LocalContext(FALSE)}
        \cup Servers \cup {[c EXCEPT !.available = FALSE] : c \in Servers}

\* v2_global_settings: no row, one row, two rows; "b" is a path with no file
RasterRows ==
    LET Row(id, dem_file) == Setting(id, RdNew, Some(4), dem_file, None)
    IN  {<<>>, <<Setting(1, None, None, <<"a">>, None)>>}
        \cup {<<Row(1, ref)>> : ref \in {Null, Empty, <<"a">>, <<"b">>}}
        \cup {<<Row(1, r1), Row(2, r2)>> :
                  r1 \in {<<"a">>, <<"b">>}, r2 \in {Null, <<"a">>, <<"b">>}}

RasterDatabase(settings) ==
    Database([definitions |-> <<>>, locations |-> <<>>, pipes |-> <<>>],
             [nodes |-> <<>>, spatial_index |-> TRUE],
             [settings |-> settings], Some(MIN_SCHEMA_VERSION))

\* `with interface_cls(path) as raster:` around a block that ends in
\* `outcome`: RasterInterface.__enter__ calls _open, __exit__ calls _close
with_raster_unless_raised(outcome) ==
    IF outcome = "raise" THEN <<"_open">> ELSE <<"_open", "_close">>
with_raster(outcome) == <<"_open", "_close">>

\* the _open and _close calls of the passes with these outcomes; the pass
\* that raises is the last one
RECURSIVE Handles(_)
Handles(outcomes) ==
    IF outcomes = <<>> THEN <<>>
    ELSE IF Head(outcomes) = "skip" THEN Handles(Tail(outcomes))
    ELSE with_raster(Head(outcomes))
             \o (IF Head(outcomes) = "raise" THEN <<>> ELSE Handles(Tail(outcomes)))

\* BaseRasterCheck.get_invalid: the calls it makes on raster interfaces
BaseRasterCheck_handles(chk, at, to_check, ctx, fs) ==
    IF ~ctx.available THEN <<>>
    ELSE LET records == IF ctx.type = "server" THEN Limit(to_check, 1) ELSE to_check
             PathOf(r) == IF ctx.type = "server" THEN get_path_server(chk, ctx)
                          ELSE get_path_local(chk, r, fs)
             Outcome(r) == IF PathOf(r) = None THEN "skip"
                           ELSE is_valid(chk, at, FileAt(fs, PathOf(r)[1]))
         IN  Handles([i \in 1..Len(records) |-> Outcome(records[i])])

\* self.epsg_code and self.grid_space as the two get_invalid overrides
\* assign them before super().get_invalid(session)
RasterAttrs(db) ==
    [epsg_code |-> RasterHasMatchingEPSGCheck_epsg_code(db),
     grid_space |-> IF db.settings = <<>> THEN None ELSE db.settings[1].grid_space]

\* check.get_invalid(session) of a raster check: [raised, rows, handles]
RasterCheck_get_invalid(chk, db, ctx, fs) ==
    LET to_check == BaseRasterCheck_to_check(chk, db)
        Without(result) == [raised |-> result.raised, rows |-> result.rows, handles |-> <<>>]
    IN  IF chk.cls = "GDALAvailableCheck" THEN Without(GDALAvailableCheck_get_invalid(ctx))
        ELSE IF chk.cls = "RasterExistsCheck"
            THEN Without(RasterExistsCheck_get_invalid(chk, to_check, ctx, fs))
        ELSE IF chk.cls = "RasterGridSizeCheck" /\ db.settings = <<>>
            THEN Without(Returned(<<>>))
        ELSE LET result == BaseRasterCheck_get_invalid(chk, RasterAttrs(db), to_check, ctx, fs)
             IN  [raised |-> result.raised, rows |-> result.rows,
                  handles |-> BaseRasterCheck_handles(chk, RasterAttrs(db), to_check, ctx, fs)]

RasterInputs ==
    {[kind |-> "raster", arg |-> [chk |-> c, db |-> RasterDatabase(rows), ctx |-> ctx,
                                  fs |-> Files(f)]] :
         c \in RasterChecks, rows \in RasterRows, ctx \in RasterContexts, f \in RasterFiles}

EvalRasterCheck ==
    /\ eval.kind = "raster"
    /\ eval.op = "none"
    /\ eval' = Evaluated(eval.arg.chk.cls,
                         RasterCheck_get_invalid(eval.arg.chk, eval.arg.db, eval.arg.ctx,
                                                 eval.arg.fs))
    /\ UNCHANGED <<checker, config, ses, attrs, stack, run, calls>>

(***************************************************************************)
(* The cross-section definition checks of the registry (error codes 81 to  *)
(* 98) on one definition.  The outcome of a check on a record is "none"    *)
(* when the record is not among the rows the check iterates, "skip" for    *)
(* the `continue` after a ValueError, and "invalid", "valid" or "raise".   *)
(***************************************************************************)
CrossSectionCheck(cls, error_code, column, shapes) ==
    [Check(cls, error_code, "ERROR", "v2_cross_section_definition", column)
        EXCEPT !.shapes = shapes]

\* config.py, "008x: CROSS SECTION DEFINITIONS"
CrossSectionChecks ==
    LET Tabulated == {TABULATED_RECTANGLE, TABULATED_TRAPEZIUM, TABULATED_YZ}
    IN  <<CrossSectionCheck("CrossSectionNullCheck", 81, "width", None),
          CrossSectionCheck("CrossSectionNullCheck", 82, "height",
                            Some({CLOSED_RECTANGLE} \cup Tabulated)),
          CrossSectionCheck("CrossSectionFloatCheck", 83, "width",
                            Some({RECTANGLE, CIRCLE, CLOSED_RECTANGLE, EGG})),
          CrossSectionCheck("CrossSectionFloatCheck", 84, "height", Some({CLOSED_RECTANGLE})),
          CrossSectionCheck("CrossSectionGreaterZeroCheck", 85, "width",
                            Some({RECTANGLE, CIRCLE, CLOSED_RECTANGLE, EGG, INVERTED_EGG})),
          CrossSectionCheck("CrossSectionGreaterZeroCheck", 86, "height",
                            Some({CLOSED_RECTANGLE})),
          CrossSectionCheck("CrossSectionFloatListCheck", 87, "width", Some(Tabulated)),
          CrossSectionCheck("CrossSectionFloatListCheck", 88, "height", Some(Tabulated)),
          CrossSectionCheck("CrossSectionEqualElementsCheck", 89, "width", Some(Tabulated)),
          CrossSectionCheck("CrossSectionIncreasingCheck", 90, "height",
                            Some({TABULATED_RECTANGLE, TABULATED_TRAPEZIUM})),
          CrossSectionCheck("CrossSectionFirstElementNonZeroCheck", 91, "width",
                            Some({TABULATED_RECTANGLE})),
          CrossSectionCheck("CrossSectionFirstElementZeroCheck", 92, "height",
                            Some({TABULATED_RECTANGLE, TABULATED_TRAPEZIUM})),
          CrossSectionCheck("CrossSectionExpectEmptyCheck", 94, "height",
                            Some({CIRCLE, EGG, INVERTED_EGG})),
          CrossSectionCheck("CrossSectionYZHeightCheck", 95, "height", Some({TABULATED_YZ})),
          CrossSectionCheck("CrossSectionYZCoordinateCountCheck", 96, "width",
                            Some({TABULATED_YZ})),
          CrossSectionCheck("CrossSectionYZIncreasingWidthIfOpenCheck", 97, "width",
                            Some({TABULATED_YZ})),
          CrossSectionCheck("CrossSectionMinimumDiameterCheck", 98, "id", None)>>

\* CrossSectionNullCheck.get_invalid, CrossSectionExpectEmptyCheck.get_invalid
CrossSectionNullCheck_row(value) == IF NotNullOrEmpty(value) THEN "valid" ELSE "invalid"
CrossSectionExpectEmptyCheck_row(value) == IF NotNullOrEmpty(value) THEN "invalid" ELSE "valid"

\* CrossSectionFloatCheck.get_invalid: the pass over one record
CrossSectionFloatCheck_row(value) ==
    IF ~NotNullOrEmpty(value) THEN "none"
    ELSE IF ~IsFloat(value) THEN "invalid"
    ELSE IF FloatOf(value) < 0 THEN "invalid" ELSE "valid"

\* CrossSectionGreaterZeroCheck.get_invalid: the pass over one record
CrossSectionGreaterZeroCheck_row(value) ==
    IF ~NotNullOrEmpty(value) THEN "none"
    ELSE IF ~IsFloat(value) THEN "skip"
    ELSE IF FloatOf(value) <= 0 THEN "invalid" ELSE "valid"

\* CrossSectionFloatListCheck.get_invalid: the pass over one record
CrossSectionFloatListCheck_row(value) ==
    IF ~NotNullOrEmpty(value) THEN "none"
    ELSE IF FloatListFails(value) THEN "invalid" ELSE "valid"

\* the checks that parse their own column as a list: CrossSectionIncreasingCheck,
\* CrossSectionFirstElementNonZeroCheck, CrossSectionFirstElementZeroCheck,
\* CrossSectionYZHeightCheck
CrossSectionListCheck_row(cls, value) ==
    IF ~NotNullOrEmpty(value) THEN "none"
    ELSE IF FloatListFails(value) THEN "skip"
    ELSE LET values == FloatList(value)
             Fails == IF cls = "CrossSectionIncreasingCheck" THEN SomeDecrease(values)
                      ELSE IF cls = "CrossSectionFirstElementNonZeroCheck" THEN values[1] = 0
                      ELSE IF cls = "CrossSectionFirstElementZeroCheck" THEN values[1] # 0
                      ELSE \/ \E i \in 1..Len(values) : values[i] < 0
                           \/ ~\E i \in 1..Len(values) : values[i] = 0
         IN  IF Fails THEN "invalid" ELSE "valid"

\* the checks that parse both columns: CrossSectionEqualElementsCheck,
\* CrossSectionYZCoordinateCountCheck, CrossSectionYZIncreasingWidthIfOpenCheck
CrossSectionPairCheck_row(cls, record) ==
    IF ~NotNullOrEmpty(record.width) \/ ~NotNullOrEmpty(record.height) THEN "none"
    ELSE IF FloatListFails(record.width) \/ FloatListFails(record.height) THEN "skip"
    ELSE LET widths == FloatList(record.width)
             heights == FloatList(record.height)
             is_closed == /\ widths[1] = widths[Len(widths)]
                          /\ heights[1] = heights[Len(heights)]
             Fails ==
                 IF cls = "CrossSectionEqualElementsCheck" THEN Len(widths) # Len(heights)
                 ELSE IF cls = "CrossSectionYZCoordinateCountCheck"
                     THEN /\ Len(widths) = Len(heights)
                          /\ Len(heights) < (IF is_closed THEN 4 ELSE 3)
                 ELSE /\ ~is_closed
                      /\ \E i \in 1..(Len(widths) - 1) : widths[i] >= widths[i + 1]
         IN  IF Fails THEN "invalid" ELSE "valid"

\* the pass of check chk over a record of its to_check
CrossSectionCheck_row(chk, record) ==
    IF chk.cls = "CrossSectionNullCheck" THEN CrossSectionNullCheck_row(record[chk.column])
    ELSE IF chk.cls = "CrossSectionExpectEmptyCheck"
        THEN CrossSectionExpectEmptyCheck_row(record[chk.column])
    ELSE IF chk.cls = "CrossSectionFloatCheck"
        THEN CrossSectionFloatCheck_row(record[chk.column])
    ELSE IF chk.cls = "CrossSectionGreaterZeroCheck"
        THEN CrossSectionGreaterZeroCheck_row(record[chk.column])
    ELSE IF chk.cls = "CrossSectionFloatListCheck"
        THEN CrossSectionFloatListCheck_row(record[chk.column])
    ELSE IF chk.cls \in {"CrossSectionEqualElementsCheck", "CrossSectionYZCoordinateCountCheck",
                         "CrossSectionYZIncreasingWidthIfOpenCheck"}
        THEN CrossSectionPairCheck_row(chk.cls, record)
    ELSE IF chk.cls = "CrossSectionMinimumDiameterCheck"
        THEN IF NotNullOrEmpty(record.width) THEN MinimumDiameterRow(record) ELSE "none"
    ELSE CrossSectionListCheck_row(chk.cls, record[chk.column])

\* the outcome of every check of CrossSectionChecks on definition 1 of db
RegistryOutcomes(db) ==
    [k \in DOMAIN CrossSectionChecks |->
        LET to_check == CrossSectionBaseCheck_to_check(CrossSectionChecks[k], db)
        IN  IF to_check = <<>> THEN "none"
            ELSE CrossSectionCheck_row(CrossSectionChecks[k], to_check[1])]

RegistryTexts ==
    { Null, Empty, <<"4">>, <<"0">>, <<"-", "2">>, <<"x">>, <<"2", " ", "4">>,
      <<"4", " ", "x">> }

\* one definition, referred to by a pipe
RegistryInputs ==
    {[kind |-> "registry",
      arg |-> [definitions |-> <<Def(1, shape, width, height)>>, locations |-> <<>>,
               pipes |-> <<Pipe(1, 1)>>]] :
        shape \in CrossSectionShape, width \in RegistryTexts, height \in RegistryTexts}

\* every cross-section definition check of the registry evaluated on the
\* definition
EvalRegistry ==
    /\ eval.kind = "registry"
    /\ eval.op = "none"
    /\ eval' = Evaluated("CHECKS", RegistryOutcomes(eval.arg))
    /\ UNCHANGED <<checker, config, ses, attrs, stack, run, calls>>

(***************************************************************************)
(* The inflow checks (error codes 613 and 614).  Areas are in units of     *)
(* 5000 m2, so the 10000 m2 of the checks is InflowAreaLimit;              *)
(* SurfaceCountLimit stands for their 50 surfaces per node.  A database    *)
(* here is [settings, nodes, impervious, pervious]: the use_0d_inflow of   *)
(* the v2_global_settings rows in id order, the connection node ids, and   *)
(* the two surface maps joined to their surfaces as                        *)
(* [connection_node_id, area].                                             *)
(***************************************************************************)
NO_INFLOW == 0
IMPERVIOUS_SURFACE == 1
SURFACE == 2

InflowAreaLimit == 2
SurfaceCountLimit == 2

\* CONDITIONS[key].exists() for "0d_surf" and "0d_imp": the first settings
\* row has this use_0d_inflow
Condition(key, db) ==
    /\ db.settings # <<>>
    /\ db.settings[1] = (IF key = "0d_imp" THEN IMPERVIOUS_SURFACE ELSE SURFACE)

\* func.sum(area) and func.count(connection_node_id) of the group of a node
RECURSIVE AreaOf(_, _)
AreaOf(node, map) ==
    IF map = <<>> THEN 0
    ELSE (IF Head(map).connection_node_id = node THEN Head(map).area ELSE 0)
             + AreaOf(node, Tail(map))
CountOf(node, map) ==
    Cardinality({i \in 1..Len(map) : map[i].connection_node_id = node})

\* ImperviousNodeInflowAreaCheck.get_invalid and
\* PerviousNodeInflowAreaCheck.get_invalid over their surface map
NodeInflowAreaCheck_get_invalid(map, db) ==
    LET Large(node) == CountOf(node, map) > 0 /\ AreaOf(node, map) > InflowAreaLimit
    IN  Returned(SelectSeq(db.nodes, Large))

\* NodeSurfaceConnectionsCheck.get_invalid over self.surface_column
NodeSurfaceConnectionsCheck_get_invalid(map, db) ==
    LET Overloaded(node) == CountOf(node, map) > SurfaceCountLimit
    IN  Returned(SelectSeq(db.nodes, Overloaded))

\* the four checks as config.py registers them: [cls, check_type, filters]
InflowChecks ==
    { [cls |-> "ImperviousNodeInflowAreaCheck", check_type |-> "impervious",
       filters |-> "0d_imp"],
      [cls |-> "PerviousNodeInflowAreaCheck", check_type |-> "pervious",
       filters |-> "0d_surf"],
      [cls |-> "NodeSurfaceConnectionsCheck", check_type |-> "pervious",
       filters |-> "0d_surf"],
      [cls |-> "NodeSurfaceConnectionsCheck", check_type |-> "impervious",
       filters |-> "0d_imp"] }

\* check.get_invalid(session) of an inflow check
InflowCheck_get_invalid(chk, db) ==
    LET map == IF chk.check_type = "impervious" THEN db.impervious ELSE db.pervious
    IN  IF chk.cls = "NodeSurfaceConnectionsCheck"
        THEN NodeSurfaceConnectionsCheck_get_invalid(map, db)
        ELSE NodeInflowAreaCheck_get_invalid(map, db)

SurfaceMaps ==
    LET S(node, area) == [connection_node_id |-> node, area |-> area]
    IN  { <<>>, <<S(1, 3)>>, <<S(1, 1), S(2, 1)>>, <<S(1, 1), S(1, 1), S(1, 1)>>,
          <<S(2, 2), S(2, 1), S(1, 2)>> }

InflowInputs ==
    {[kind |-> "inflow",
      arg |-> [chk |-> c,
               db |-> [settings |-> s, nodes |-> <<1, 2>>, impervious |-> i,
                       pervious |-> p]]] :
        c \in InflowChecks,
        s \in {<<>>, <<NO_INFLOW>>, <<IMPERVIOUS_SURFACE>>, <<SURFACE>>,
               <<NO_INFLOW, SURFACE>>},
        i \in SurfaceMaps, p \in SurfaceMaps}

EvalInflowCheck ==
    /\ eval.kind = "inflow"
    /\ eval.op = "none"
    /\ eval' = Evaluated(eval.arg.chk.cls, InflowCheck_get_invalid(eval.arg.chk, eval.arg.db))
    /\ UNCHANGED <<checker, config, ses, attrs, stack, run, calls>>

\* OpenChannelsWithNestedNewton.to_check: the definitions when a
\* v2_numerical_settings row has use_of_nested_newton == 0, no row otherwise
OpenChannelsWithNestedNewton_to_check(use_of_nested_newton, db) ==
    IF use_of_nested_newton = 0 THEN db.definitions ELSE <<>>

\* float(definition.width.split(" ")[-1]) == 0.0, any exception passed over
LastWidthIsZero(width) ==
    /\ width # Null
    /\ LET last == Split(width)[Len(Split(width))]
       IN  IsFloat(last) /\ FloatOf(last) = 0

\* OpenChannelsWithNestedNewton.get_invalid over self.to_check(session)
OpenChannelsWithNestedNewton_get_invalid(to_check, db) ==
    LET InUse(d) == d.id \in DefinitionIdsInUse(db)
        AlwaysClosed(d) == d.shape \in {CLOSED_RECTANGLE, CIRCLE, EGG}
        TabulatedClosed(d) == /\ d.shape \in {TABULATED_RECTANGLE, TABULATED_TRAPEZIUM}
                              /\ LastWidthIsZero(d.width)
        definitions_in_use == SelectSeq(to_check, InUse)
    IN  Returned(SelectSeq(definitions_in_use, AlwaysClosed)
                     \o SelectSeq(definitions_in_use, TabulatedClosed))

\* OpenChannelsWithNestedNewton().get_invalid(session) on a database with the
\* definition, in use by a pipe or not, and one v2_numerical_settings row
EvalNestedNewton ==
    /\ eval.kind = "definition"
    /\ eval.op = "none"
    /\ \E use_of_nested_newton \in {0, 1}, in_use \in BOOLEAN :
          LET db == [definitions |-> <<eval.arg>>, locations |-> <<>>,
                     pipes |-> IF in_use THEN <<Pipe(1, eval.arg.id)>> ELSE <<>>]
              result == OpenChannelsWithNestedNewton_get_invalid(
                            OpenChannelsWithNestedNewton_to_check(use_of_nested_newton, db), db)
          IN  eval' = Evaluated("OpenChannelsWithNestedNewton",
                                [use_of_nested_newton |-> use_of_nested_newton,
                                 in_use |-> in_use, raised |-> result.raised,
                                 rows |-> result.rows])
    /\ UNCHANGED <<checker, config, ses, attrs, stack, run, calls>>

EvalInputs ==
    UniqueInputs \cup RangeInputs \cup DefinitionInputs \cup ChannelInputs \cup BreachInputs
        \cup RasterInputs \cup RegistryInputs \cup InflowInputs

InitEval ==
    /\ \E i \in EvalInputs : eval = Evaluating(i)
    /\ ses = <<>>
    /\ checker = "new"
    /\ config = NoConfig
    /\ attrs = ConstructedAttrs
    /\ stack = <<>>
    /\ run = <<>>
    /\ calls = <<>>

NextEval ==
    \/ EvalUniqueCheck
    \/ EvalRangeCheck
    \/ EvalClassify
    \/ EvalConfigurationType
    \/ EvalSameConfiguration
    \/ EvalMinimumDiameter
    \/ EvalInterdistance
    \/ EvalRasterCheck
    \/ EvalRegistry
    \/ EvalInflowCheck
    \/ EvalNestedNewton

SpecEval == InitEval /\ [][NextEval]_vars

(***************************************************************************)
(* Properties                                                              *)
(***************************************************************************)
\* what get_invalid of check k returns against session s when every instance
\* is as constructed and no other call runs
Alone(k, s) == get_invalid(k, ConstructedAttrs, s).result

InvalidRows(k, s) == IF Alone(k, s).raised THEN <<>> ELSE Alone(k, s).rows

EmptyDatabase(db) ==
    /\ db.definitions = <<>> /\ db.locations = <<>> /\ db.pipes = <<>>
    /\ db.nodes = <<>> /\ db.settings = <<>>

\* severity a is at or above severity b: ERROR > WARNING > INFO
AtOrAbove(a, b) ==
    \/ b = "INFO"
    \/ b = "WARNING" /\ a \in {"WARNING", "ERROR"}
    \/ b = "ERROR" /\ a = "ERROR"

Position(seq, k) == CHOOSE i \in 1..Len(seq) : seq[i] = k

\* C1: a run of errors(level) is total: it is never aborted by a failing
\* get_invalid, and when it has ended every invalid row of every selected
\* check that did not fail has been yielded.
C1_RunIsTotal ==
    /\ run[1].status # "aborted"
    /\ run[1].status = "done" =>
          \A i \in 1..Len(run[1].selected) :
              LET k == run[1].selected[i]
                  rows == InvalidRows(k, ses[1])
              IN  \A j \in 1..Len(rows) :
                      \E n \in 1..Len(run[1].yielded) : run[1].yielded[n] = <<k, rows[j]>>

\* C2: evaluating checks never changes an instance: at any moment every
\* attribute of every check (wrapped checks included) has the value it had
\* immediately after construction.
C2_InstancesUnchanged == \A k \in CheckIds : attrs[k] = Constructed(k)

\* C3: under every interleaving of two runs each ended call has returned what
\* it returns alone, and once both runs are idle every check behaves as it did
\* before them (its to_check is its own again).
C3_SharedInstances ==
    /\ \A t \in Threads :
          calls[t].last.check # 0 =>
              calls[t].last.result = Alone(calls[t].last.check, ses[t])
    /\ (\A t \in Threads : stack[t] = <<>>) =>
          \A k \in CheckIds : attrs[k].to_check = Constructed(k).to_check

C5_Idempotent ==
    [][\A t \in Threads :
          (stack[t] # <<>> /\ stack'[t] = <<>> /\ calls[t].last.check = stack[t][1].k)
              => /\ calls'[t].last.result.raised = calls[t].last.result.raised
                 /\ SeqToSet(calls'[t].last.result.rows) = SeqToSet(calls[t].last.result.rows)]_vars

\* a check that assigns to itself or patches another has been evaluated twice
\* in a row and found invalid rows
C5_CalledTwice ==
    /\ calls[1].streak = 2
    /\ Checks[calls[1].last.check].cls \in
           {"RasterGridSizeCheck", "RasterHasMatchingEPSGCheck", "ConditionalCheck"}
    /\ calls[1].last.result.rows # <<>>

\* C6: get_invalid of the minimum diameter, conveyance friction and conveyance
\* advice checks never raises, whatever the cross-section tables hold.
C6_ClassificationNeverRaises ==
    (calls[1].last.check \in CheckIds /\ Checks[calls[1].last.check].cls \in
         {"CrossSectionMinimumDiameterCheck",
          "OpenIncreasingCrossSectionConveyanceFrictionCheck",
          "CrossSectionConveyanceFrictionAdviceCheck"})
        => ~calls[1].last.result.raised

\* C7: when the schema version is missing or below the minimum, or the context
\* type is neither local nor server, the constructor raises: there is never a
\* checker, errors() never runs and no get_invalid is ever invoked.
C7_FatalBeforeEvaluation ==
    (\/ ses[1].db.version = None
     \/ ses[1].db.version[1] < MIN_SCHEMA_VERSION
     \/ ses[1].ctx.type \notin {"local", "server"})
        => /\ checker \in {"new", "raised"}
           /\ run[1].status = "idle"
           /\ calls[1].last.check = 0
           /\ attrs = ConstructedAttrs

\* the constructor has raised on a version below the minimum
C7_ConstructorRaised ==
    /\ checker = "raised"
    /\ ses[1].db.version # None
    /\ ses[1].db.version[1] < MIN_SCHEMA_VERSION
    /\ ses[1].ctx.type = "local"

\* C8: checks(level) yields exactly the registered checks at or above level,
\* without the checks flagged is_beta_check when beta features are not
\* allowed, each once and in registry order.
C8_ChecksAtLevel ==
    run[1].status # "idle" =>
        LET sel == run[1].selected
            reg == config.checks
            Wanted(k) == /\ AtOrAbove(Checks[k].level, run[1].level)
                         /\ (Checks[k].is_beta_check => config.allow_beta_features)
        IN  /\ \A i \in 1..Len(sel) : sel[i] \in SeqToSet(reg) /\ Wanted(sel[i])
            /\ \A j \in 1..Len(reg) : Wanted(reg[j]) => reg[j] \in SeqToSet(sel)
            /\ \A i, j \in 1..Len(sel) :
                   i < j => Position(reg, sel[i]) < Position(reg, sel[j])

\* a selection at WARNING that leaves out an INFO check and a beta check
C8_SomeLeftOut ==
    /\ run[1].status = "running"
    /\ run[1].level = "WARNING"
    /\ ~config.allow_beta_features
    /\ run[1].selected # <<>>
    /\ \E k \in SeqToSet(config.checks) :
           Checks[k].is_beta_check /\ Checks[k].level = "ERROR"
    /\ \E k \in SeqToSet(config.checks) : Checks[k].level = "INFO"

\* C9: a run that has ended has yielded every invalid row of every selected
\* check, and no check has reported the same row (id) twice.
C9_OnePairPerInvalidRow ==
    run[1].status \in {"done", "aborted"} =>
        /\ \A i \in 1..Len(run[1].selected) :
               LET k == run[1].selected[i]
                   rows == InvalidRows(k, ses[1])
               IN  \A j \in 1..Len(rows) :
                       \E n \in 1..Len(run[1].yielded) : run[1].yielded[n] = <<k, rows[j]>>
        /\ \A m, n \in 1..Len(run[1].yielded) :
               (m # n /\ run[1].yielded[m][1] = run[1].yielded[n][1])
                   => run[1].yielded[m][2].id # run[1].yielded[n][2].id

\* C10: against a database whose tables hold no rows, get_invalid of every
\* check returns an empty list.
C10_NoRowsNoInvalid ==
    \A t \in Threads :
        (calls[t].last.check # 0 /\ EmptyDatabase(ses[t].db))
            => calls[t].last.result = Returned(<<>>)

\* C10, amended: against a database whose tables hold no rows no get_invalid
\* raises; GDALAvailableCheck returns the one GDALUnavailable record exactly
\* when the raster interface is unavailable, SpatialIndexCheck the one
\* IndexMissingRecord exactly when the spatial index is not valid, and every
\* other check returns an empty list.
C10_NoRowsOnlyEnvironment ==
    \A t \in Threads :
        (calls[t].last.check # 0 /\ EmptyDatabase(ses[t].db)) =>
            LET cls == Checks[calls[t].last.check].cls
                res == calls[t].last.result
            IN  /\ ~res.raised
                /\ Len(res.rows) <= 1
                /\ IF cls = "GDALAvailableCheck"
                       THEN (res.rows = <<>>) <=> ses[t].ctx.available
                   ELSE IF cls = "SpatialIndexCheck"
                       THEN (res.rows = <<>>) <=> ses[t].db.spatial_index
                   ELSE res.rows = <<>>

\* GDALAvailableCheck has reported the unavailable interface on empty tables
C10_UnavailableOnEmpty ==
    /\ EmptyDatabase(ses[1].db)
    /\ calls[1].last.check \in CheckIds
    /\ Checks[calls[1].last.check].cls = "GDALAvailableCheck"
    /\ calls[1].last.result.rows # <<>>

\* C11: a ConditionalCheck reports exactly the rows that satisfy the wrapped
\* check's own candidate filter, the added criterion and the wrapped check's
\* invalidity predicate together: the criterion is added to the candidate
\* filter of the wrapped check, it does not replace it.  Stated for the first
\* call of a caller, made on a wrapper of the minimum-diameter check.
C11_CriterionAddedToFilter ==
    \A k \in CheckIds :
        (/\ Checks[k].cls = "ConditionalCheck"
         /\ stack[1] = <<>>
         /\ calls[1].left = MaxCalls - 1
         /\ calls[1].last.check = k
         /\ ~calls[1].last.result.raised)
        => LET Expected(r) ==
                   /\ Criterion(Checks[k].criterion, r)
                   /\ NotNullOrEmpty(r.width)
                   /\ MinimumDiameterRow(r) = "invalid"
           IN  calls[1].last.result.rows
                   = SelectSeq(ClassToCheck(Checks[k].check, ses[1].db), Expected)

\* C12: UniqueCheck on a single column or on a tuple of columns reports
\* exactly the rows whose key is not null (no column of it is NULL) and occurs
\* in more than one row of the table.
C12_DuplicateGroupsReported ==
    eval.op = "UniqueCheck"
    => LET rows == eval.arg.rows
           names == eval.arg.column.names
           KeyOf(i) == Key(rows[i], names)
           NotNull(i) == \A n \in 1..Len(names) : KeyOf(i)[n] # None
           Duplicated(i) == \E j \in (1..Len(rows)) \ {i} : KeyOf(j) = KeyOf(i)
       IN  /\ ~eval.out.raised
           /\ \A i \in 1..Len(rows) :
                  (rows[i] \in SeqToSet(eval.out.rows)) <=> (NotNull(i) /\ Duplicated(i))

\* C13: RangeCheck reports a row iff its value is not NULL and lies below the
\* lower bound or above the upper bound, a value equal to a bound being
\* outside iff that bound is exclusive; a missing bound imposes no limit.
C13_InclusiveAndExclusiveBounds ==
    eval.op = "RangeCheck"
    => LET a == eval.arg
           Below(v) == a.lower_limit # None
                       /\ (v < a.lower_limit[1] \/ (~a.left_inclusive /\ v = a.lower_limit[1]))
           Above(v) == a.upper_limit # None
                       /\ (v > a.upper_limit[1] \/ (~a.right_inclusive /\ v = a.upper_limit[1]))
           Invalid(r) == r.value # None /\ (Below(r.value[1]) \/ Above(r.value[1]))
       IN  /\ ~eval.out.raised
           /\ eval.out.rows = SelectSeq(a.rows, Invalid)

\* the largest and the smallest element of a non-empty list
Largest(xs) == CHOOSE m \in SeqToSet(xs) : \A x \in SeqToSet(xs) : m >= x
Smallest(xs) == CHOOSE m \in SeqToSet(xs) : \A x \in SeqToSet(xs) : m <= x

\* C14: for a tabulated rectangle or trapezium the classification is closed
\* iff the last width is 0 and open in every other case, with max_width and
\* max_height the maxima of the two lists, an absent list counting as [0].
C14_TabulatedClosedIffLastWidthZero ==
    (/\ eval.op = "cross_section_configuration"
     /\ eval.arg.shape \in {TABULATED_RECTANGLE, TABULATED_TRAPEZIUM})
    => LET w == IF Parsed(eval.arg.width) = <<>> THEN <<0>> ELSE Parsed(eval.arg.width)
           h == IF Parsed(eval.arg.height) = <<>> THEN <<0>> ELSE Parsed(eval.arg.height)
       IN  /\ ~eval.out.raised
           /\ eval.out.configuration = (IF w[Len(w)] = 0 THEN "closed" ELSE "open")
           /\ eval.out.max_width = Largest(w)
           /\ eval.out.max_height = Some(Largest(h))

\* C15: for a tabulated YZ cross-section given by a width list and a height
\* list the classification is closed iff the first (width, height) pair equals
\* the last one and open otherwise, and max_width and max_height are the
\* maximum minus the minimum of the respective list.
C15_YZClosedIffFirstPairIsLast ==
    (/\ eval.op = "cross_section_configuration"
     /\ eval.arg.shape = TABULATED_YZ
     /\ Parsed(eval.arg.width) # <<>>
     /\ Parsed(eval.arg.height) # <<>>)
    => LET w == Parsed(eval.arg.width)
           h == Parsed(eval.arg.height)
       IN  /\ ~eval.out.raised
           /\ (eval.out.configuration = "closed") <=> (w[1] = w[Len(w)] /\ h[1] = h[Len(h)])
           /\ (eval.out.configuration = "open") <=> (w[1] # w[Len(w)] \/ h[1] # h[Len(h)])
           /\ eval.out.max_width = Largest(w) - Smallest(w)
           /\ eval.out.max_height = Some(Largest(h) - Smallest(h))

\* a YZ profile that returns to its first point has been classified as closed
C15_ClosedProfile ==
    /\ eval.op = "cross_section_configuration"
    /\ eval.arg.shape = TABULATED_YZ
    /\ Len(Parsed(eval.arg.width)) = 3
    /\ Len(Parsed(eval.arg.height)) = 3
    /\ eval.out.configuration = "closed"
    /\ eval.out.max_width > 0

\* C16: the minimum-diameter check reports a definition iff it is in use, its
\* dimensions parse, and it is closed with max_width or max_height below the
\* minimum diameter or open with max_width below it; the height of an open
\* cross-section never causes a report.
C16_MinimumDiameterRule ==
    eval.op = "CrossSectionMinimumDiameterCheck"
    => LET db == eval.arg
           TooSmall(d) ==
               LET c == Configuration(d)
               IN  \/ /\ c.configuration = "closed"
                      /\ (c.max_width < MinimumDiameter \/ c.max_height[1] < MinimumDiameter)
                   \/ /\ c.configuration = "open"
                      /\ c.max_width < MinimumDiameter
           Reportable(d) ==
               /\ d.id \in DefinitionIdsInUse(db)
               /\ NotNullOrEmpty(d.width)
               /\ Parsable(d)
               /\ TooSmall(d)
       IN  /\ ~eval.out.raised
           /\ eval.out.rows = SelectSeq(db.definitions, Reportable)

\* C17: for every shape and every pair of a width and a height text that are
\* absent or parse, the SQL expression configuration_type, fed with the first
\* and last numbers that SQL extracts, gives the open/closed answer that
\* cross_section_configuration gives on the parsed lists.
C17_SqlAgreesWithPython ==
    (eval.op = "configuration_type" /\ Parsable(eval.arg))
    => LET python == cross_section_configuration(eval.arg.shape, Parsed(eval.arg.height),
                                                 Parsed(eval.arg.width))
       IN  /\ ~python.raised
           /\ python.configuration = eval.out

\* C18: the same-configuration check reports a channel iff the definitions of
\* the cross-section locations on that channel include at least one open and
\* at least one closed one; cross-sections on other channels, and definitions
\* that no location of the channel refers to, do not influence the answer.
C18_ChannelWithBothConfigurations ==
    eval.op = "CrossSectionSameConfigurationCheck"
    => LET db == eval.arg
           OnChannel(channel) ==
               {d \in SeqToSet(db.definitions) :
                    \E i \in 1..Len(db.locations) :
                        /\ db.locations[i].channel_id = channel.id
                        /\ db.locations[i].definition_id = d.id}
           Is(d, configuration) ==
               /\ Parsable(d)
               /\ Configuration(d).configuration = configuration
           Mixed(channel) ==
               /\ \E d \in OnChannel(channel) : Is(d, "open")
               /\ \E d \in OnChannel(channel) : Is(d, "closed")
       IN  /\ ~eval.out.raised
           /\ eval.out.rows = SelectSeq(db.channels, Mixed)

\* two breaches of one channel at different positions closer than min_distance
TooClose(a, b, min_distance) ==
    /\ a.channel_id = b.channel_id
    /\ a.position # b.position
    /\ (IF a.position > b.position THEN a.position - b.position
        ELSE b.position - a.position) < min_distance

\* C19: when the breach interdistance check reports nothing, every two
\* breaches of one channel are at the same position or at least min_distance
\* apart; if some pair of a channel is at different positions closer than
\* min_distance, a breach of that channel is reported.
C19_InterdistanceComplete ==
    eval.op = "PotentialBreachInterdistanceCheck"
    => LET rows == SeqToSet(eval.arg.rows)
       IN  \A a \in rows, b \in rows :
               TooClose(a, b, eval.arg.min_distance)
                   => \E r \in SeqToSet(eval.out.rows) : r.channel_id = a.channel_id

\* C20: a breach is reported iff its immediate predecessor in (channel,
\* position) order is on the same channel, at another position, and closer
\* than min_distance; the first breach of a channel, a breach coincident with
\* its predecessor and a breach at least min_distance after its predecessor
\* are not reported.
C20_ComparesWithPredecessor ==
    eval.op = "PotentialBreachInterdistanceCheck"
    => LET sorted == Sorted(eval.arg.rows)
           Reported(i) == sorted[i] \in SeqToSet(eval.out.rows)
       IN  \A i \in 1..Len(sorted) :
               Reported(i) <=> (i > 1 /\ TooClose(sorted[i - 1], sorted[i],
                                                  eval.arg.min_distance))

ExistingRows(arg) ==
    LET There(r) == FileAt(arg.fs, r.dem_file).exists
    IN  SelectSeq(BaseRasterCheck_to_check(arg.chk, arg.db), There)
MissingRows(arg) ==
    LET Gone(r) == ~FileAt(arg.fs, r.dem_file).exists
    IN  SelectSeq(BaseRasterCheck_to_check(arg.chk, arg.db), Gone)

\* every element of rows is an element of among
Among(rows, among) == \A i \in 1..Len(rows) : \E j \in 1..Len(among) : rows[i] = among[j]

C23_ServerAtMostOneRow ==
    (eval.kind = "raster" /\ eval.op \in OpeningClasses \cup {"RasterExistsCheck"}
                          /\ eval.arg.ctx.type = "server")
        => /\ Len(eval.out.rows) <= 1
           /\ Len(eval.out.handles) <= 2

\* every _open is followed by its _close before the next _open, and the last
\* call is a _close
Scoped(handles) ==
    /\ Len(handles) % 2 = 0
    /\ \A i \in 1..Len(handles) : handles[i] = (IF i % 2 = 1 THEN "_open" ELSE "_close")

\* the number of records BaseRasterCheck.get_invalid has a path for
Examined(arg) ==
    IF ~arg.ctx.available THEN 0
    ELSE IF arg.ctx.type = "local" THEN Len(ExistingRows(arg))
    ELSE IF BaseRasterCheck_to_check(arg.chk, arg.db) # <<>>
                /\ get_path_server(arg.chk, arg.ctx) # None THEN 1
    ELSE 0

\* C24: raster handles are strictly scoped.  A check that evaluates rasters
\* opens one interface per examined row and closes it before the next is
\* opened and before get_invalid ends, whether is_valid returned valid,
\* returned a violation, found no valid raster or raised.
C24_HandlesScoped ==
    (eval.kind = "raster" /\ eval.op \in OpeningClasses)
        => /\ Scoped(eval.out.handles)
           /\ Len(eval.out.handles) <= 2 * Examined(eval.arg)
           /\ ~eval.out.raised => Len(eval.out.handles) = 2 * Examined(eval.arg)

\* the band statistics of the second of two GeoTIFF rows are never read: the
\* backend fails on the first, whose interface is closed all the same
C24_ClosedAfterBackendException ==
    /\ eval.kind = "raster"
    /\ eval.op = "RasterRangeCheck"
    /\ eval.arg.ctx.type = "local"
    /\ eval.arg.fs[<<"a">>].is_valid_geotiff
    /\ eval.arg.fs[<<"a">>].statistics = "error"
    /\ Examined(eval.arg) = 2
    /\ eval.out.raised
    /\ eval.out.handles = <<"_open", "_close">>

\* C25: a file that is not a valid raster passes every metric check: with
\* the backend available and every row referring to such a file, each of the
\* eight metric checks returns without raising and reports no row.
C25_InvalidFilePassesMetricChecks ==
    (eval.kind = "raster" /\ eval.op \in MetricClasses /\ eval.arg.ctx = LocalContext(TRUE)
        /\ eval.arg.fs[<<"a">>].exists /\ ~eval.arg.fs[<<"a">>].is_valid_geotiff)
        => /\ ~eval.out.raised
           /\ eval.out.rows = <<>>

\* a GeoTIFF without a valid pixel: no band, or band statistics that end
\* with "no valid pixels found"
WithoutPixels(raster) ==
    raster.band_count = 0 \/ raster.statistics = "no valid pixels found"

\* the minimum lies below min_value, or on it when the left bound is
\* exclusive; the maximum lies above max_value, or on it when the right
\* bound is exclusive
OutOfRange(chk, raster) ==
    \/ /\ chk.min_value # None
       /\ \/ raster.min < chk.min_value[1]
          \/ ~chk.left_inclusive /\ raster.min = chk.min_value[1]
    \/ /\ chk.max_value # None
       /\ \/ raster.max > chk.max_value[1]
          \/ ~chk.right_inclusive /\ raster.max = chk.max_value[1]

\* C26: the raster value-range check reports the rows of a valid raster iff
\* the raster has no valid pixels or its minimum or maximum lies outside the
\* configured bounds; a raster without valid pixels is reported for every
\* configuration of the bounds, and as a row, not as an exception.
C26_RasterRangeRule ==
    (eval.kind = "raster" /\ eval.op = "RasterRangeCheck" /\ eval.arg.ctx = LocalContext(TRUE)
        /\ eval.arg.fs[<<"a">>].exists /\ eval.arg.fs[<<"a">>].is_valid_geotiff
        /\ eval.arg.fs[<<"a">>].statistics # "error")
        => /\ ~eval.out.raised
           /\ eval.out.rows =
                  (IF WithoutPixels(eval.arg.fs[<<"a">>])
                        \/ OutOfRange(eval.arg.chk, eval.arg.fs[<<"a">>])
                   THEN ExistingRows(eval.arg) ELSE <<>>)

\* a raster without valid pixels and an upper bound only: the row is
\* reported, nothing is raised
C26_NoValidPixelsReported ==
    /\ eval.kind = "raster"
    /\ eval.op = "RasterRangeCheck"
    /\ eval.arg.ctx = LocalContext(TRUE)
    /\ eval.arg.chk.min_value = None
    /\ eval.arg.chk.max_value = Some(3)
    /\ eval.arg.fs[<<"a">>].is_valid_geotiff
    /\ eval.arg.fs[<<"a">>].band_count = 1
    /\ eval.arg.fs[<<"a">>].statistics = "no valid pixels found"
    /\ Len(ExistingRows(eval.arg)) = 1
    /\ ~eval.out.raised
    /\ eval.out.rows = ExistingRows(eval.arg)

\* C27: malformed data skipped by one check is caught by another.  Whenever
\* a check of the registry skips an in-use definition because its width or
\* height does not parse, some check of the registry reports the definition.
C27_SkippedIsReportedElsewhere ==
    (eval.kind = "registry" /\ eval.op = "CHECKS")
        => ((\E k \in DOMAIN eval.out : eval.out[k] = "skip")
                => \E j \in DOMAIN eval.out : eval.out[j] = "invalid")

\* C28: ConditionalCheck restores the wrapped check on every exit path: when
\* a call of ConditionalCheck.get_invalid has ended, by a return or by an
\* exception of the wrapped check, the wrapped check's to_check is the one it
\* was constructed with, so a direct call on it queries its own candidates.
C28_WrappedCheckRestored ==
    \A k \in CheckIds :
        (/\ Checks[k].cls = "ConditionalCheck"
         /\ stack[1] = <<>>
         /\ calls[1].last.check = k)
        => attrs[Checks[k].check].to_check = Constructed(Checks[k].check).to_check

\* C29: the inflow-area checks and the surface-connection-count checks are
\* registered with a filter on the kind of 0D inflow of the settings; when
\* that filter condition does not hold in the database they report no row.
C29_InflowFilterHonoured ==
    (eval.kind = "inflow" /\ eval.op # "none"
        /\ ~Condition(eval.arg.chk.filters, eval.arg.db))
        => eval.out.rows = <<>>

\* C30: the nested-Newton check uses the classification function's notion of
\* closed.  With nested Newton switched off, an in-use definition with a
\* width, whose dimensions parse, is reported exactly when
\* cross_section_configuration classifies it as closed, for every shape.
C30_NestedNewtonAgreesWithClassification ==
    (eval.kind = "definition" /\ eval.op = "OpenChannelsWithNestedNewton"
        /\ eval.out.use_of_nested_newton = 0 /\ eval.out.in_use
        /\ NotNullOrEmpty(eval.arg.width) /\ Parsable(eval.arg))
        => LET c == cross_section_configuration(eval.arg.shape, Parsed(eval.arg.height),
                                                Parsed(eval.arg.width))
           IN  (eval.out.rows = <<eval.arg>>) <=> (~c.raised /\ c.configuration = "closed")

=============================================================================
